---------------------------- MODULE Spec2Model ----------------------------
(***************************************************************************)
(* A model of the crawl engine of crawl.py: the page store                 *)
(* (DatabaseManager), URL canonicalisation (LinkDetector), and the         *)
(* asynchronous worker pool (CrawlerManager) with its executor threads.    *)
(*                                                                         *)
(* A URL is a record of the parts urlparse gives it.  The path is the      *)
(* sequence of the pieces that follow each "/" ("" is <<>>, "/" is         *)
(* <<"">>, "/a/b" is <<"a","b">>); the query is the sequence of its        *)
(* key=value pairs in the order written.                                   *)
(***************************************************************************)
EXTENDS Integers, Sequences, FiniteSets, TLC

NULL == "NULL"

URL(s, h, p, pa, q, f) ==
    [scheme |-> s, host |-> h, port |-> p, path |-> pa, query |-> q, frag |-> f]

(* None where a URL is expected; as a string it is the empty one. *)
NoURL == URL("", "", "", <<>>, <<>>, "")

(* A status_code column that is NULL. *)
NoStatus == -1

(***************************************************************************)
(* str.lower() on the schemes and hosts the model uses.                    *)
(***************************************************************************)
LowerTable == [x \in {"HTTP", "HTTPS", "JavaScript", "A.com", "B.com"} |->
                 CASE x = "HTTP"  -> "http"
                   [] x = "HTTPS" -> "https"
                   [] x = "JavaScript" -> "javascript"
                   [] x = "A.com" -> "a.com"
                   [] x = "B.com" -> "b.com"]

Lower(s) == IF s \in DOMAIN LowerTable THEN LowerTable[s] ELSE s

(***************************************************************************)
(* The order sorted() puts the query keys in (string comparison).          *)
(***************************************************************************)
KeyRank == [k \in {"a", "b", "c", "fbclid", "gclid", "id", "msclkid",
                   "utm_campaign", "utm_content", "utm_medium",
                   "utm_source", "utm_term"} |->
              CASE k = "a" -> 1 [] k = "b" -> 2 [] k = "c" -> 3
                [] k = "fbclid" -> 4 [] k = "gclid" -> 5 [] k = "id" -> 6
                [] k = "msclkid" -> 7 [] k = "utm_campaign" -> 8
                [] k = "utm_content" -> 9 [] k = "utm_medium" -> 10
                [] k = "utm_source" -> 11 [] k = "utm_term" -> 12]

tracking_params == {"utm_source", "utm_medium", "utm_campaign", "utm_term",
                    "utm_content", "gclid", "fbclid", "msclkid"}

(* parse_qs(query).keys(): the keys that carry a non-blank value. *)
QueryKeys(q) == {q[i][1] : i \in {j \in 1..Len(q) : q[j][2] # ""}}

RECURSIVE SortKeys(_)
SortKeys(S) ==
    IF S = {} THEN <<>>
    ELSE LET m == CHOOSE k \in S : \A o \in S : KeyRank[k] <= KeyRank[o]
         IN  <<m>> \o SortKeys(S \ {m})

(* The pairs of key k, in the order written, blank values dropped. *)
ValuesOf(q, k) == SelectSeq(q, LAMBDA kv : kv[1] = k /\ kv[2] # "")

RECURSIVE EncodeQuery(_, _)
EncodeQuery(q, ks) ==
    IF ks = <<>> THEN <<>>
    ELSE ValuesOf(q, Head(ks)) \o EncodeQuery(q, Tail(ks))

(***************************************************************************)
(* LinkDetector.normalize_url_advanced on an absolute URL; NoURL (None)    *)
(* for a rejected one: the empty string (scheme "") and the texts that     *)
(* start with '#', 'javascript:', 'mailto:' or 'tel:'.                     *)
(***************************************************************************)
normalize_url_advanced(u) ==
    IF u.scheme \in {"", "#", "javascript", "mailto", "tel"} THEN NoURL
    ELSE LET scheme == Lower(u.scheme)
             host   == Lower(u.host)
             port   == IF (scheme = "http" /\ u.port = "80")
                          \/ (scheme = "https" /\ u.port = "443")
                       THEN "" ELSE u.port
             keys   == SortKeys(QueryKeys(u.query) \ tracking_params)
             path   == IF u.path = <<>> THEN <<"">> ELSE u.path
         IN  URL(scheme, host, port, path, EncodeQuery(u.query, keys), "")

(* urlparse(url).netloc *)
Netloc(u) == <<u.host, u.port>>

(* DatabaseManager.url_hash: SHA-256 of the text, taken as collision free. *)
url_hash(u) == <<"sha256", u>>


(***************************************************************************)
(* The store.  pages maps the id of each row of the pages table to the     *)
(* row; nextId is the AUTOINCREMENT counter (ids are never reused).        *)
(***************************************************************************)
VARIABLES pages, nextId

(***************************************************************************)
(* Callers of the store used on its own: call[c] is the add_page call      *)
(* caller c is in, returned the calls that have returned.                  *)
(***************************************************************************)
VARIABLES call, returned, ncalls

(***************************************************************************)
(* Other components used on their own: the store's operations called one   *)
(* after another (op is the last call: what it was given, what it found    *)
(* and what it returned), the javascript_events table, and the trap        *)
(* detector called from several threads (tcall[t] is the is_trap call      *)
(* thread t is in, tlog what the calls so far were given and answered).    *)
(***************************************************************************)
VARIABLES op, events, tcall, tlog

(***************************************************************************)
(* LinkDetector used on its own: nz holds the two URLs last given to       *)
(* normalize_url_advanced, what it returned for each, and what it returned *)
(* when given its first result again.                                      *)
(***************************************************************************)
VARIABLES nz

(***************************************************************************)
(* LinkDetector and ResourceExtractor used on a parsed document: doc holds *)
(* the document's elements, what extract_static_links and                  *)
(* extract_all_resources returned for it, and the rows add_link stored.    *)
(***************************************************************************)
VARIABLES doc

VARIABLES
    cfg,            \* the arguments of the run: entry (mode), disregard_robots
    mgr,            \* run(): where it is, domain_to_crawl, the page last queried
    queue,          \* asyncio.Queue: the items waiting
    unfinished,     \* asyncio.Queue._unfinished_tasks (join waits for 0)
    in_queue,       \* CrawlerManager.in_queue
    wk,             \* per worker: where it is, its item, crawl_page's locals
    loop,           \* the worker now running on the event loop (0: none)
    robot_parsers,  \* WebCrawler.robot_parsers: netloc -> "policy" | "none"
    trap,           \* UrlTrapDetector.path_query_structures
    links,          \* the links table
    resources,      \* the resources table: rows per page id
    crawled_count,  \* CrawlerManager.crawled_count
    exc,            \* exceptions raised in workers so far
    hist            \* history: what was enqueued, fetched, skipped, completed

storeVars  == <<pages, nextId>>
unitVars   == <<op, nz, doc, events, tcall, tlog>>
callerVars == <<call, returned, ncalls, op, nz, doc, events, tcall, tlog>>
crawlVars  == <<cfg, mgr, queue, unfinished, in_queue, wk, loop, robot_parsers,
                trap, links, resources, crawled_count, exc, hist>>
vars == <<pages, nextId, call, returned, ncalls, op, nz, doc, events, tcall, tlog, cfg, mgr, queue, unfinished,
          in_queue, wk, loop, robot_parsers, trap, links, resources,
          crawled_count, exc, hist>>

None == 0

(* A new row as add_page inserts it: the columns it does not name keep *)
(* their defaults (crawl_count 0, is_crawled 0, the rest NULL).         *)
NewRow(url, norm, parent, depth) ==
    [url |-> url, normalized_url |-> norm, domain |-> Netloc(url),
     crawl_depth |-> depth, parent_url |-> parent,
     is_crawled |-> 0, crawl_count |-> 0,
     status_code |-> NoStatus, error_message |-> NULL]

(* SELECT id FROM pages WHERE normalized_url_hash = ? ; fetchone() *)
SelectByNormMutLookupByRaw(pgs, norm) ==
    IF \E id \in DOMAIN pgs : url_hash(pgs[id].url) = url_hash(norm)
    THEN CHOOSE id \in DOMAIN pgs : url_hash(pgs[id].url) = url_hash(norm)
    ELSE None

SelectByNorm(pgs, norm) ==
    IF \E id \in DOMAIN pgs : url_hash(pgs[id].normalized_url) = url_hash(norm)
    THEN CHOOSE id \in DOMAIN pgs :
             url_hash(pgs[id].normalized_url) = url_hash(norm)
    ELSE None

(* The UNIQUE constraints of the pages table: url, url_hash and *)
(* normalized_url_hash.                                           *)
UniqueOkMutNoNormConstraint(pgs, url, norm) ==
    \A id \in DOMAIN pgs :
        /\ pgs[id].url # url
        /\ url_hash(pgs[id].url) # url_hash(url)

UniqueOk(pgs, url, norm) ==
    \A id \in DOMAIN pgs :
        /\ pgs[id].url # url
        /\ url_hash(pgs[id].url) # url_hash(url)
        /\ url_hash(pgs[id].normalized_url) # url_hash(norm)

(***************************************************************************)
(* DatabaseManager.add_page runs as three statements on the shared         *)
(* connection; another thread's statements may run between them.  A frame  *)
(* holds the arguments of a call and the statement it is at.               *)
(***************************************************************************)
IdleFrame == [pc |-> "idle", url |-> NoURL, norm |-> NoURL, parent |-> NoURL,
              depth |-> 0, raced |-> FALSE]

Frame(url, norm, parent, depth) ==
    [pc |-> "lookup", url |-> url, norm |-> norm, parent |-> parent,
     depth |-> depth, raced |-> FALSE]

(* Lines 193-196: the id of the existing row, or None and go on to insert. *)
LookupResult(pgs, f) == SelectByNorm(pgs, f.norm)

(* Lines 201-213: the INSERT and commit; lastrowid is the new id. *)
InsertedPages(pgs, nid, f) ==
    [id \in DOMAIN pgs \cup {nid} |->
        IF id = nid THEN NewRow(f.url, f.norm, f.parent, f.depth) ELSE pgs[id]]

(* Lines 214-220: after the IntegrityError, the row found by the re-query. *)
RequeryResult(pgs, f) == SelectByNorm(pgs, f.norm)


(***************************************************************************)
(* The store used on its own by concurrent callers (threads sharing the    *)
(* connection), each calling add_page(U, Canonicalize(U)) as the crawler   *)
(* does.                                                                   *)
(***************************************************************************)
NumCallers == 2
MaxCalls == 3

Callers == 1..NumCallers

StoreURLs ==
    { URL("http",  "a.com", "",   <<"x">>, << <<"b","2">>, <<"a","1">> >>, ""),
      URL("http",  "a.com", "",   <<"x">>, << <<"a","1">>, <<"b","2">> >>, "s"),
      URL("HTTP",  "A.com", "80", <<"x">>,
          << <<"utm_source","n">>, <<"a","1">>, <<"b","2">> >>, ""),
      URL("http",  "a.com", "",   <<>>, <<>>, ""),
      URL("http",  "a.com", "",   <<"">>, <<>>, "top"),
      URL("https", "a.com", "443", <<"">>, <<>>, "") }

(* A call that has returned: who called, with what, and what came back. *)
Returned(c, f, id) ==
    [caller |-> c, url |-> f.url, norm |-> f.norm, id |-> id, raced |-> f.raced]

(* The call and its first statement, the lookup (lines 189-196). *)
StoreLookup(c, u) ==
    /\ call[c].pc = "idle"
    /\ ncalls < MaxCalls
    /\ LET f  == Frame(u, normalize_url_advanced(u), NoURL, 0)
           id == LookupResult(pages, f)
       IN  IF id # None
           THEN /\ returned' = returned \cup {Returned(c, f, id)}
                /\ call' = call
           ELSE /\ call' = [call EXCEPT ![c] = [f EXCEPT !.pc = "insert"]]
                /\ returned' = returned
    /\ ncalls' = ncalls + 1
    /\ UNCHANGED <<pages, nextId>>
    /\ UNCHANGED crawlVars
    /\ UNCHANGED unitVars

(* The INSERT (lines 199-213), or its IntegrityError (line 214). *)
StoreInsert(c) ==
    /\ call[c].pc = "insert"
    /\ LET f == call[c]
       IN  IF UniqueOk(pages, f.url, f.norm)
           THEN /\ pages' = InsertedPages(pages, nextId, f)
                /\ nextId' = nextId + 1
                /\ returned' = returned \cup {Returned(c, f, nextId)}
                /\ call' = [call EXCEPT ![c] = IdleFrame]
           ELSE /\ call' = [call EXCEPT ![c] = [f EXCEPT !.pc = "requery",
                                                         !.raced = TRUE]]
                /\ UNCHANGED <<pages, nextId, returned>>
    /\ UNCHANGED ncalls
    /\ UNCHANGED crawlVars
    /\ UNCHANGED unitVars

(* The re-query after the IntegrityError (lines 217-220). *)
StoreRequery(c) ==
    /\ call[c].pc = "requery"
    /\ returned' = returned \cup {Returned(c, call[c], RequeryResult(pages, call[c]))}
    /\ call' = [call EXCEPT ![c] = IdleFrame]
    /\ UNCHANGED <<pages, nextId, ncalls>>
    /\ UNCHANGED crawlVars
    /\ UNCHANGED unitVars


(***************************************************************************)
(* The crawl: CrawlerManager.run, its worker coroutines on the event loop  *)
(* and the executor threads that run WebCrawler.crawl_page.                *)
(***************************************************************************)
NumWorkers == 2
MaxDepth == 1
MaxExc == 1

Workers == 1..NumWorkers

(* UrlTrapDetector.__init__ defaults *)
max_path_depth == 10
max_repeating_segments == 3
max_query_variations == 5

NoDomain == <<"", "">>

(***************************************************************************)
(* The site crawled.  Root is the seed; PXf and PXu are two other          *)
(* spellings of page x (a fragment; an upper-case host, which is_internal  *)
(* takes for another host); y/z lies under the path robots.txt disallows.  *)
(***************************************************************************)
Root == URL("http", "a.com", "", <<"">>, <<>>, "")
PX   == URL("http", "a.com", "", <<"x">>, <<>>, "")
PXf  == URL("http", "a.com", "", <<"x">>, <<>>, "top")
PXu  == URL("http", "A.com", "", <<"x">>, <<>>, "")
PY   == URL("http", "a.com", "", <<"y">>, <<>>, "")
PZ   == URL("http", "a.com", "", <<"y", "z">>, <<>>, "")
Ext  == URL("http", "b.com", "", <<"">>, <<>>, "")
Sitemap == URL("sitemap", "", "", <<>>, <<>>, "")

(* The href "JavaScript:" of an anchor of the seed's page: normalize_url *)
(* (line 439) tests the prefix 'javascript:' as written, so the link is  *)
(* kept; urlparse gives it no netloc.                                     *)
JsUpper == URL("JavaScript", "", "", <<>>, <<>>, "")

(* A second site: the seed http://example.com, whose page holds one *)
(* anchor, to http://example.com/linked_page.                       *)
ExSeed   == URL("http", "example.com", "", <<>>, <<>>, "")
ExLinked == URL("http", "example.com", "", <<"linked_page">>, <<>>, "")

(* The anchors of each page, as extract_static_links resolves them. *)
SiteLinks(u) ==
    LET n == normalize_url_advanced(u)
    IN  CASE n = Root -> <<PXf, Ext, JsUpper>>
          [] n = PY   -> <<PXu, PX>>
          [] n = PX   -> <<Root>>
          [] n = normalize_url_advanced(ExSeed) -> <<ExLinked>>
          [] OTHER    -> <<>>

(* The static resources of each page (ResourceExtractor). *)
SiteResources(u) == IF normalize_url_advanced(u) = Root THEN 1 ELSE 0

(* A calendar page nested in itself: one segment four times. *)
Nested == URL("http", "a.com", "", <<"r", "r", "r", "r">>, <<>>, "")

(* The <loc> entries of the site's sitemap. *)
SitemapLocs == <<PY, Ext, Nested>>

(* robots.txt of every host: Disallow: /y *)
RobotsDisallows(u) == Len(u.path) > 0 /\ u.path[1] = "y"

(* LinkDetector.is_internal *)
is_internal(u, base_domain) == Netloc(u) = base_domain \/ Netloc(u) = NoDomain

(***************************************************************************)
(* UrlTrapDetector.is_trap: the verdict, and the memory after the call.    *)
(***************************************************************************)
Segments(u) == SelectSeq(u.path, LAMBDA seg : seg # "")

Occurrences(segs, seg) == Cardinality({i \in 1..Len(segs) : segs[i] = seg})

KnownStructures(pqs, u) == IF u.path \in DOMAIN pqs THEN pqs[u.path] ELSE {}

is_trapMutDepthGeq(pqs, u) ==
    LET segs == Segments(u)
    IN  \/ Len(segs) >= max_path_depth
        \/ \E i \in 1..Len(segs) : Occurrences(segs, segs[i]) > max_repeating_segments
        \/ /\ QueryKeys(u.query) \notin KnownStructures(pqs, u)
           /\ Cardinality(KnownStructures(pqs, u)) >= max_query_variations

is_trapMutNoRepeatRule(pqs, u) ==
    LET segs == Segments(u)
    IN  \/ Len(segs) > max_path_depth
        \/ /\ QueryKeys(u.query) \notin KnownStructures(pqs, u)
           /\ Cardinality(KnownStructures(pqs, u)) >= max_query_variations

is_trapMutNoSeenTest(pqs, u) ==
    LET segs == Segments(u)
    IN  \/ Len(segs) > max_path_depth
        \/ \E i \in 1..Len(segs) : Occurrences(segs, segs[i]) > max_repeating_segments
        \/ Cardinality(KnownStructures(pqs, u)) >= max_query_variations

is_trapMutOverLimit(pqs, u) ==
    LET segs == Segments(u)
    IN  \/ Len(segs) > max_path_depth
        \/ \E i \in 1..Len(segs) : Occurrences(segs, segs[i]) > max_repeating_segments
        \/ /\ QueryKeys(u.query) \notin KnownStructures(pqs, u)
           /\ Cardinality(KnownStructures(pqs, u)) > max_query_variations

is_trap(pqs, u) ==
    LET segs == Segments(u)
    IN  \/ Len(segs) > max_path_depth
        \/ \E i \in 1..Len(segs) : Occurrences(segs, segs[i]) > max_repeating_segments
        \/ /\ QueryKeys(u.query) \notin KnownStructures(pqs, u)
           /\ Cardinality(KnownStructures(pqs, u)) >= max_query_variations

trap_afterMutAlwaysAdds(pqs, u) ==
    IF QueryKeys(u.query) \in KnownStructures(pqs, u) THEN pqs
    ELSE [p \in DOMAIN pqs \cup {u.path} |->
            IF p = u.path THEN KnownStructures(pqs, u) \cup {QueryKeys(u.query)}
            ELSE pqs[p]]

trap_after(pqs, u) ==
    IF is_trap(pqs, u) \/ QueryKeys(u.query) \in KnownStructures(pqs, u) THEN pqs
    ELSE [p \in DOMAIN pqs \cup {u.path} |->
            IF p = u.path THEN KnownStructures(pqs, u) \cup {QueryKeys(u.query)}
            ELSE pqs[p]]

(***************************************************************************)
(* The detector used on its own.  The URLs it is asked about: seven query  *)
(* key sets under /p (one of them in two spellings), two under /q, a path  *)
(* with a segment four times and a path eleven segments deep.              *)
(***************************************************************************)
MaxTrapCalls == 7
MaxRaceCalls == 3

TU(path, query) == URL("http", "a.com", "", path, query, "")

TrapURLs ==
    { TU(<<"p">>, <<>>),
      TU(<<"p">>, << <<"a","1">> >>),
      TU(<<"p">>, << <<"b","1">> >>),
      TU(<<"p">>, << <<"a","1">>, <<"b","2">> >>),
      TU(<<"p">>, << <<"a","4">>, <<"b","3">> >>),
      TU(<<"p">>, << <<"c","1">> >>),
      TU(<<"p">>, << <<"a","1">>, <<"c","1">> >>),
      TU(<<"p">>, << <<"b","1">>, <<"c","1">> >>),
      TU(<<"q">>, <<>>),
      TU(<<"q">>, << <<"a","1">> >>),
      TU(<<"r", "r", "r", "r">>, <<>>),
      TU(<<"1","2","3","4","5","6","7","8","9","10","11">>, <<>>) }

Signature(u) == <<u.path, QueryKeys(u.query)>>

(* The memory after max_query_variations - 1 key sets of /p were asked *)
(* about, one call after the other.                                    *)
TrapEarlier ==
    { TU(<<"p">>, <<>>),
      TU(<<"p">>, << <<"a","1">> >>),
      TU(<<"p">>, << <<"b","1">> >>),
      TU(<<"p">>, << <<"a","1">>, <<"b","2">> >>) }

TrapNearLimit == [p \in {<<"p">>} |-> {QueryKeys(u.query) : u \in TrapEarlier}]

(* Lines 861-874: the two rules on the path alone. *)
PathIsTrap(u) ==
    LET segs == Segments(u)
    IN  \/ Len(segs) > max_path_depth
        \/ \E i \in 1..Len(segs) : Occurrences(segs, segs[i]) > max_repeating_segments

IdleTrapFrame ==
    [pc |-> "idle", url |-> NoURL, fresh |-> FALSE, absent |-> FALSE,
     seen0 |-> {}, known0 |-> {}]

NoTrapLast == [url |-> NoURL, verdict |-> FALSE, seen0 |-> {}, known0 |-> {}]

EmptyTrapLog == [n |-> 0, seen |-> {}, admitted |-> {}, last |-> NoTrapLast]

(* The key sets asked about so far under the path of u. *)
SeenUnder(log, u) == {sg[2] : sg \in {x \in log.seen : x[1] = u.path}}

(* A call is made: counted, and its key set noted as asked about. *)
TrapCalled(log, u) ==
    [log EXCEPT !.n = @ + 1, !.seen = @ \cup {Signature(u)}]

(* A call returns: its verdict, and what was asked and remembered before it. *)
TrapReturned(log, f, verdict) ==
    [log EXCEPT !.admitted = IF verdict THEN @ ELSE @ \cup {Signature(f.url)},
                !.last = [url |-> f.url, verdict |-> verdict,
                          seen0 |-> f.seen0, known0 |-> f.known0]]

TrapFrame(u, pc) ==
    [pc |-> pc, url |-> u, fresh |-> u.path \notin DOMAIN trap, absent |-> FALSE,
     seen0 |-> SeenUnder(tlog, u), known0 |-> KnownStructures(trap, u)]

(* is_trap called by one thread at a time: the whole call, lines 857-898. *)
TrapCallSerial(u) ==
    /\ tlog.n < MaxTrapCalls
    /\ trap' = trap_after(trap, u)
    /\ tlog' = TrapReturned(TrapCalled(tlog, u), TrapFrame(u, "idle"),
                            is_trap(trap, u))
    /\ UNCHANGED <<storeVars, call, returned, ncalls, op, nz, doc, events, tcall, cfg, mgr,
                   queue, unfinished, in_queue, wk, loop, robot_parsers, links,
                   resources, crawled_count, exc, hist>>

(***************************************************************************)
(* is_trap called from the executor's threads (crawl_page runs on them,    *)
(* line 1221; it takes no lock).  A thread can be switched out between any *)
(* two statements: after the path rules and the read of the remembered     *)
(* set (line 884), after the tests on it (lines 886-892), and between the  *)
(* test of line 894 and the store of line 895 or 897.                      *)
(***************************************************************************)
(* Line 884: the set remembered for the path (the object itself), or a *)
(* new empty set when the path has none.                                *)
KnownTo(f) == IF f.fresh THEN {} ELSE trap[f.url.path]

(* Line 890 *)
LimitReached(known) == Cardinality(known) >= max_query_variations

TrapRest == <<storeVars, call, returned, ncalls, op, nz, doc, events, cfg, mgr,
              queue, unfinished, in_queue, wk, loop, robot_parsers, links,
              resources, crawled_count, exc, hist>>

(* Lines 859-884. *)
TrapGet(t, u) ==
    /\ tcall[t].pc = "idle"
    /\ tlog.n < MaxRaceCalls
    /\ IF PathIsTrap(u)
       THEN /\ tlog' = TrapReturned(TrapCalled(tlog, u), TrapFrame(u, "idle"), TRUE)
            /\ tcall' = tcall
       ELSE /\ tlog' = TrapCalled(tlog, u)
            /\ tcall' = [tcall EXCEPT ![t] = TrapFrame(u, "test")]
    /\ UNCHANGED trap
    /\ UNCHANGED TrapRest

(* Lines 886-892. *)
TrapTest(t) ==
    /\ tcall[t].pc = "test"
    /\ LET f == tcall[t]
           sig == QueryKeys(f.url.query)
       IN  IF sig \in KnownTo(f)
           THEN /\ tlog' = TrapReturned(tlog, f, FALSE)
                /\ tcall' = [tcall EXCEPT ![t] = IdleTrapFrame]
           ELSE IF LimitReached(KnownTo(f))
           THEN /\ tlog' = TrapReturned(tlog, f, TRUE)
                /\ tcall' = [tcall EXCEPT ![t] = IdleTrapFrame]
           ELSE /\ tlog' = tlog
                /\ tcall' = [tcall EXCEPT ![t] = [f EXCEPT !.pc = "check"]]
    /\ UNCHANGED trap
    /\ UNCHANGED TrapRest

(* Line 894: if path_base not in self.path_query_structures *)
TrapCheck(t) ==
    /\ tcall[t].pc = "check"
    /\ tcall' = [tcall EXCEPT ![t] =
                    [@ EXCEPT !.pc = "store",
                              !.absent = tcall[t].url.path \notin DOMAIN trap]]
    /\ UNCHANGED <<trap, tlog>>
    /\ UNCHANGED TrapRest

(* Line 895 (a new set for the path) or line 897 (add to the path's set), *)
(* and the return of line 898.                                            *)
TrapStore(t) ==
    /\ tcall[t].pc = "store"
    /\ LET f == tcall[t]
           sig == QueryKeys(f.url.query)
           path == f.url.path
       IN  /\ trap' = [p \in DOMAIN trap \cup {path} |->
                          IF p # path THEN trap[p]
                          ELSE IF f.absent THEN {sig}
                          ELSE KnownStructures(trap, f.url) \cup {sig}]
           /\ tlog' = TrapReturned(tlog, f, FALSE)
           /\ tcall' = [tcall EXCEPT ![t] = IdleTrapFrame]
    /\ UNCHANGED TrapRest

(***************************************************************************)
(* Store operations the crawl uses.                                        *)
(***************************************************************************)
PageData(status, error) == [status_code |-> status, error_message |-> error]

(* DatabaseManager.update_page_crawl *)
UpdatePageCrawlMutNoCount(pgs, id, data) ==
    IF id \notin DOMAIN pgs THEN pgs
    ELSE [pgs EXCEPT ![id] = [@ EXCEPT !.is_crawled = 1,
                                       !.status_code = data.status_code,
                                       !.error_message = data.error_message]]

UpdatePageCrawlMutNotCrawled(pgs, id, data) ==
    IF id \notin DOMAIN pgs THEN pgs
    ELSE [pgs EXCEPT ![id] = [@ EXCEPT !.crawl_count = @ + 1,
                                       !.status_code = data.status_code,
                                       !.error_message = data.error_message]]

UpdatePageCrawlMutKeepsError(pgs, id, data) ==
    IF id \notin DOMAIN pgs THEN pgs
    ELSE [pgs EXCEPT ![id] = [@ EXCEPT !.crawl_count = @ + 1,
                                       !.is_crawled = 1,
                                       !.status_code = data.status_code]]

UpdatePageCrawl(pgs, id, data) ==
    IF id \notin DOMAIN pgs THEN pgs
    ELSE [pgs EXCEPT ![id] = [@ EXCEPT !.crawl_count = @ + 1,
                                       !.is_crawled = 1,
                                       !.status_code = data.status_code,
                                       !.error_message = data.error_message]]

(* DatabaseManager.get_next_uncrawled: the id, or None.  Rows are *)
(* discovered in the order of their ids.                          *)
Uncrawled(pgs, domain) ==
    {id \in DOMAIN pgs : /\ pgs[id].is_crawled = 0
                         /\ (domain # NoDomain => pgs[id].domain = domain)}

get_next_uncrawledMutOldestFirst(pgs, domain) ==
    IF Uncrawled(pgs, domain) = {} THEN None
    ELSE CHOOSE id \in Uncrawled(pgs, domain) :
            \A o \in Uncrawled(pgs, domain) : id <= o

get_next_uncrawled(pgs, domain) ==
    IF Uncrawled(pgs, domain) = {} THEN None
    ELSE CHOOSE id \in Uncrawled(pgs, domain) :
            \A o \in Uncrawled(pgs, domain) :
                \/ pgs[id].crawl_depth < pgs[o].crawl_depth
                \/ pgs[id].crawl_depth = pgs[o].crawl_depth /\ id <= o

(* An id for the next row of the links table, above every row's (the *)
(* table's AUTOINCREMENT counter can skip ids, never reuse one).     *)
LinkId(lks) ==
    IF lks = {} THEN 1
    ELSE 1 + (CHOOSE m \in {l.id : l \in lks} : \A l \in lks : l.id <= m)

(* UNIQUE(source_page_id, target_url_hash) of the links table: a row *)
(* with this source and target is there already.                     *)
LinkExistsMutNever(lks, source, target) == FALSE

LinkExists(lks, source, target) ==
    \E l \in lks : l.source = source /\ url_hash(l.target) = url_hash(target)

(* DatabaseManager.add_link: INSERT OR IGNORE. *)
AddLinkMutNoIgnore(lks, source, target) ==
    lks \cup {[id |-> LinkId(lks), source |-> source, target |-> target]}

AddLink(lks, source, target) ==
    IF LinkExists(lks, source, target)
    THEN lks
    ELSE lks \cup {[id |-> LinkId(lks), source |-> source, target |-> target]}

(* DatabaseManager.delete_domain_data, line 408: DELETE FROM pages *)
DeleteDomainPagesMutUncrawledOnly(pgs, domain) ==
    [id \in {i \in DOMAIN pgs : pgs[i].domain # domain \/ pgs[i].is_crawled = 1}
        |-> pgs[id]]

DeleteDomainPages(pgs, domain) ==
    [id \in {i \in DOMAIN pgs : pgs[i].domain # domain} |-> pgs[id]]

(* Line 404: DELETE FROM links WHERE source_page_id IN (the domain's pages) *)
DeleteDomainLinks(lks, pgs, domain) ==
    {l \in lks : ~(l.source \in DOMAIN pgs /\ pgs[l.source].domain = domain)}

(* Lines 405-406: the same for javascript_events and resources, tables *)
(* held as the number of rows of each page id.                         *)
DeleteDomainRows(rows, pgs, domain) ==
    [id \in {i \in DOMAIN rows : ~(i \in DOMAIN pgs /\ pgs[i].domain = domain)}
        |-> rows[id]]

(* DatabaseManager.reset_domain_crawl_status *)
ResetDomainMutClearsCount(pgs, domain) ==
    [id \in DOMAIN pgs |->
        IF pgs[id].domain = domain
        THEN [pgs[id] EXCEPT !.is_crawled = 0, !.crawl_count = 0]
        ELSE pgs[id]]

ResetDomainMutDepth0Only(pgs, domain) ==
    [id \in DOMAIN pgs |->
        IF pgs[id].domain = domain /\ pgs[id].crawl_depth = 0
        THEN [pgs[id] EXCEPT !.is_crawled = 0]
        ELSE pgs[id]]

ResetDomain(pgs, domain) ==
    [id \in DOMAIN pgs |->
        IF pgs[id].domain = domain THEN [pgs[id] EXCEPT !.is_crawled = 0]
        ELSE pgs[id]]

(* add_page run without interleaving (the set-up of a run, before any *)
(* worker exists): the store after the call.                           *)
AddPageSeqMutShallowest(st, url, norm, parent, depth) ==
    LET id == SelectByNorm(st.pages, norm)
    IN  IF id # None
        THEN [st EXCEPT !.pages[id].crawl_depth = IF depth < @ THEN depth ELSE @]
        ELSE IF ~UniqueOk(st.pages, url, norm) THEN st
        ELSE [pages  |-> InsertedPages(st.pages, st.nextId,
                                       Frame(url, norm, parent, depth)),
              nextId |-> st.nextId + 1]

AddPageSeq(st, url, norm, parent, depth) ==
    IF SelectByNorm(st.pages, norm) # None \/ ~UniqueOk(st.pages, url, norm)
    THEN st
    ELSE [pages  |-> InsertedPages(st.pages, st.nextId,
                                   Frame(url, norm, parent, depth)),
          nextId |-> st.nextId + 1]

(* What that call returns: the existing id; the new id; or, after an *)
(* IntegrityError, what the re-query finds (line 220).               *)
AddPageResult(st, url, norm) ==
    LET f == Frame(url, norm, NoURL, 0)
    IN  IF LookupResult(st.pages, f) # None THEN LookupResult(st.pages, f)
        ELSE IF UniqueOk(st.pages, url, norm) THEN st.nextId
        ELSE RequeryResult(st.pages, f)


(***************************************************************************)
(* Stores a run can find: empty; the site's rows left uncrawled by an      *)
(* earlier run (one of them found at a depth beyond today's max_depth);    *)
(* the same with page x crawled by an earlier run on the host spelled      *)
(* A.com.                                                                  *)
(***************************************************************************)
EmptyStore == [pages |-> <<>>, nextId |-> 1]

StoreSite ==
    AddPageSeq(AddPageSeq(AddPageSeq(EmptyStore,
        Root, normalize_url_advanced(Root), NoURL, 0),
        PY, normalize_url_advanced(PY), Sitemap, 0),
        PZ, normalize_url_advanced(PZ), PY, MaxDepth + 1)

StoreAlias ==
    LET st == AddPageSeq(StoreSite, PXu, normalize_url_advanced(PXu), NoURL, 1)
    IN  [st EXCEPT !.pages = UpdatePageCrawl(st.pages, st.nextId - 1,
                                             PageData(200, NULL))]

(* The seed of the second site added as its own normalized form, not yet *)
(* crawled.                                                              *)
StoreExample == AddPageSeq(EmptyStore, ExSeed, ExSeed, NoURL, 0)

Bump(f, k) ==
    [x \in DOMAIN f \cup {k} |->
        (IF x \in DOMAIN f THEN f[x] ELSE 0) + (IF x = k THEN 1 ELSE 0)]

Count(f, k) == IF k \in DOMAIN f THEN f[k] ELSE 0

Item(id, url, depth) == [id |-> id, url |-> url, depth |-> depth]
NoItem == Item(None, NoURL, 0)

(* A worker that holds no item; pc "none" before the task is created. *)
IdleWorker(pc) ==
    [pc |-> pc, item |-> NoItem, data |-> PageData(NoStatus, NULL),
     li |-> 0, new_pages |-> <<>>, ci |-> 0, ap |-> IdleFrame]

(* Line 1233: the guard of the worker's put. *)
ShouldEnqueueMutAlways(id, inq) == TRUE

ShouldEnqueue(id, inq) == id \notin inq

(* Lines 1256-1263 run once for each uncrawled row, in the order *)
(* get_next_uncrawled gives them.                                 *)
RECURSIVE PreloadItems(_, _)
PreloadItems(pgs, ids) ==
    IF ids = {} THEN <<>>
    ELSE LET id == CHOOSE i \in ids : \A o \in ids :
                      \/ pgs[i].crawl_depth < pgs[o].crawl_depth
                      \/ pgs[i].crawl_depth = pgs[o].crawl_depth /\ i <= o
         IN  <<Item(id, pgs[id].url, pgs[id].crawl_depth)>>
                 \o PreloadItems(pgs, ids \ {id})

RECURSIVE CountAll(_, _)
CountAll(f, items) ==
    IF items = <<>> THEN f ELSE CountAll(Bump(f, Head(items).id), Tail(items))

InitHist(pgs, items) ==
    [attempts |-> [id \in DOMAIN pgs |-> pgs[id].crawl_count],
     enq |-> CountAll(<<>>, items),
     deq |-> <<>>, taken |-> {}, fetched |-> {}, robots_skipped |-> {},
     depth_skipped |-> {}, ext_rows |-> {}, disc |-> {},
     robots_lookups |-> <<>>, robots_fetches |-> <<>>]

InitCrawl(entry, st, dr, seed, sel) ==
    LET pool  == entry = "pool"
        items == IF pool
                 THEN PreloadItems(st.pages, Uncrawled(st.pages, Netloc(seed)))
                 ELSE <<>>
    IN  /\ pages = st.pages
        /\ nextId = st.nextId
        /\ cfg = [entry |-> entry, disregard_robots |-> dr, start_url |-> seed,
                  use_selenium |-> sel]
        /\ mgr = [pc |-> IF pool THEN "join" ELSE "setup",
                  domain_to_crawl |-> IF pool THEN Netloc(seed) ELSE NoDomain,
                  page |-> None]
        /\ queue = items
        /\ unfinished = Len(items)
        /\ in_queue = {items[i].id : i \in 1..Len(items)}
        /\ wk = [w \in Workers |-> IdleWorker(IF pool THEN "get" ELSE "none")]
        /\ loop = 0
        /\ robot_parsers = <<>>
        /\ trap = <<>>
        /\ links = {}
        /\ resources = <<>>
        /\ events = <<>>
        /\ crawled_count = 0
        /\ exc = 0
        /\ hist = InitHist(st.pages, items)

(* No operation called yet. *)
NoOp ==
    [n |-> 0, name |-> "none", again |-> FALSE, id |-> None, url |-> NoURL,
     norm |-> NoURL, depth |-> 0, domain |-> NoDomain, result |-> None,
     data |-> <<>>, now |-> 0,
     pages0 |-> <<>>, links0 |-> {}, resources0 |-> <<>>, events0 |-> <<>>]

(* No document has been parsed. *)
NoDoc == [stage |-> "none", anchors |-> <<>>, elements |-> <<>>,
          found |-> <<>>, resources |-> <<>>, rows |-> {}]

(* normalize_url_advanced not called yet. *)
NoNorm ==
    [stage |-> "none", url |-> NoURL, other |-> NoURL, norm |-> NoURL,
     other_norm |-> NoURL, again |-> NoURL]

NoCallers ==
    /\ nz = NoNorm
    /\ doc = NoDoc
    /\ call = [c \in Callers |-> IdleFrame]
    /\ returned = {}
    /\ ncalls = 0
    /\ op = NoOp
    /\ tcall = [t \in Workers |-> IdleTrapFrame]

(* A run with the static fetcher (sel false) or the browser fetcher. *)
InitRun(sel) ==
    /\ NoCallers
    /\ tlog = EmptyTrapLog
    /\ \E entry \in {"pool", "new_scan", "update", "continue"},
          st \in {EmptyStore, StoreSite, StoreAlias, StoreExample},
          dr \in BOOLEAN, seed \in {Root, ExSeed, NoURL} :
          /\ (seed # NoURL) <=> (entry \in {"pool", "new_scan"})
          /\ entry = "pool" => Uncrawled(st.pages, Netloc(seed)) # {}
          /\ InitCrawl(entry, st, dr, seed, sel)

Init == InitRun(FALSE)

(* --use-selenium, the driver initialised (lines 931-933, 999-1023). *)
InitSelenium == InitRun(TRUE)


(***************************************************************************)
(* CrawlerManager.setup_crawler, one action per mode.                      *)
(***************************************************************************)
(* WebCrawler.extract_urls_from_sitemap: every internal <loc> that *)
(* normalises is added at depth 0 with parent 'sitemap'.           *)
RECURSIVE AddSitemapLocs(_, _, _)
AddSitemapLocs(st, locs, base) ==
    IF locs = <<>> THEN st
    ELSE LET u == Head(locs)
             n == normalize_url_advanced(u)
         IN  AddSitemapLocs(
                 IF is_internal(u, base) /\ n # NoURL
                 THEN AddPageSeq(st, u, n, Sitemap, 0) ELSE st,
                 Tail(locs), base)

RowsOfDomain(pgs, domain) == {id \in DOMAIN pgs : pgs[id].domain = domain}

(* Line 984: the host has an entry in robot_parsers, a parser or None. *)
CachedMutPolicyOnly(parsers, domain) ==
    domain \in DOMAIN parsers /\ parsers[domain] = "policy"

Cached(parsers, domain) == domain \in DOMAIN parsers

(* get_robot_parser(domain) was called: one more lookup, and one more *)
(* fetch of robots.txt unless the host has its entry.                 *)
RobotsNoted(h, domain) ==
    [h EXCEPT !.robots_lookups = Bump(@, domain),
              !.robots_fetches = IF Cached(robot_parsers, domain) THEN @
                                 ELSE Bump(@, domain)]

(* --new-scan URL: lines 1290-1309 (and parse_sitemap, lines 949-965). *)
RunSetupNewScan ==
    /\ mgr.pc = "setup"
    /\ cfg.entry = "new_scan"
    /\ LET start_url == cfg.start_url
           domain    == Netloc(start_url)
           gone      == RowsOfDomain(pages, domain)
       IN  \E choice \in {"y", "n"}, robots \in {"policy", "none"},
              sitemap_ok \in BOOLEAN :
             IF gone # {} /\ choice = "n"
             THEN /\ mgr' = [mgr EXCEPT !.pc = "returned"]
                  /\ UNCHANGED <<pages, nextId, robot_parsers, links, resources,
                                 hist>>
             ELSE LET purged == [pages |-> DeleteDomainPages(pages, domain),
                                 nextId |-> nextId]
                      seeded == AddPageSeq(purged, start_url,
                                    normalize_url_advanced(start_url), NoURL, 0)
                      mapped == IF sitemap_ok
                                THEN AddSitemapLocs(seeded, SitemapLocs, domain)
                                ELSE seeded
                  IN  /\ pages' = mapped.pages
                      /\ nextId' = mapped.nextId
                      /\ links' = {l \in links : l.source \notin gone}
                      /\ resources' = [id \in DOMAIN resources \ gone |->
                                          resources[id]]
                      /\ robot_parsers' = [d \in {domain} |-> robots]
                      /\ hist' = RobotsNoted(hist, domain)
                      /\ mgr' = [mgr EXCEPT !.pc = "preload_query",
                                            !.domain_to_crawl = domain]
    /\ UNCHANGED <<callerVars, cfg, queue, unfinished, in_queue, wk, loop, trap,
                   crawled_count, exc>>

(* --update: lines 1311-1332 and 1341-1345. *)
RunSetupUpdate ==
    /\ mgr.pc = "setup"
    /\ cfg.entry = "update"
    /\ LET domains == {pages[id].domain : id \in DOMAIN pages}
       IN  \E choice \in domains \cup {NoDomain} :
             IF choice \notin domains
             THEN /\ mgr' = [mgr EXCEPT !.pc = "returned"]
                  /\ pages' = pages
             ELSE /\ pages' = ResetDomain(pages, choice)
                  /\ mgr' = [mgr EXCEPT !.pc = "preload_query",
                                        !.domain_to_crawl = choice]
    /\ UNCHANGED <<callerVars, nextId, cfg, queue, unfinished, in_queue, wk, loop,
                   robot_parsers, trap, links, resources, crawled_count, exc,
                   hist>>

(* --continue-crawl: lines 1334-1345; with no start_url and no domain *)
(* WebCrawler.__init__ raises ValueError (line 920).                  *)
RunSetupContinue ==
    /\ mgr.pc = "setup"
    /\ cfg.entry = "continue"
    /\ mgr' = [mgr EXCEPT !.pc = IF Uncrawled(pages, NoDomain) = {}
                                 THEN "returned" ELSE "raised"]
    /\ UNCHANGED <<storeVars, callerVars, cfg, queue, unfinished, in_queue, wk,
                   loop, robot_parsers, trap, links, resources, crawled_count,
                   exc, hist>>

(***************************************************************************)
(* CrawlerManager.run: the pre-load loop, the join and the shutdown.       *)
(***************************************************************************)
(* Lines 1256 and 1263: page = get_next_uncrawled(domain_to_crawl). *)
RunPreloadQuery ==
    /\ mgr.pc = "preload_query"
    /\ mgr' = [mgr EXCEPT !.pc = "preload_test",
                          !.page = get_next_uncrawled(pages, mgr.domain_to_crawl)]
    /\ UNCHANGED <<storeVars, callerVars, cfg, queue, unfinished, in_queue, wk,
                   loop, robot_parsers, trap, links, resources, crawled_count,
                   exc, hist>>

(* Line 1257: while page; the body (lines 1258-1262), or on leaving *)
(* the loop lines 1265-1273.                                         *)
RunPreloadTest ==
    /\ mgr.pc = "preload_test"
    /\ IF mgr.page # None
       THEN LET id  == mgr.page
                put == id \notin in_queue
            IN  /\ in_queue' = IF put THEN in_queue \cup {id} ELSE in_queue
                /\ queue' = IF put
                            THEN Append(queue, Item(id, pages[id].url,
                                                    pages[id].crawl_depth))
                            ELSE queue
                /\ unfinished' = IF put THEN unfinished + 1 ELSE unfinished
                /\ hist' = IF put THEN [hist EXCEPT !.enq = Bump(@, id)] ELSE hist
                /\ mgr' = [mgr EXCEPT !.pc = "preload_query"]
                /\ wk' = wk
       ELSE /\ IF Len(queue) = 0
               THEN /\ mgr' = [mgr EXCEPT !.pc = "returned"]
                    /\ wk' = wk
               ELSE /\ mgr' = [mgr EXCEPT !.pc = "join"]
                    /\ wk' = [w \in Workers |-> IdleWorker("get")]
            /\ UNCHANGED <<queue, unfinished, in_queue, hist>>
    /\ UNCHANGED <<storeVars, callerVars, cfg, loop, robot_parsers, trap, links,
                   resources, crawled_count, exc>>

(* Lines 1275-1286: join() returns once every item is marked done; the *)
(* workers are cancelled and gathered.                                 *)
RunJoin ==
    /\ mgr.pc = "join"
    /\ unfinished = 0
    /\ loop = 0
    /\ mgr' = [mgr EXCEPT !.pc = "done"]
    /\ wk' = [w \in Workers |-> [wk[w] EXCEPT !.pc = "cancelled"]]
    /\ UNCHANGED <<storeVars, callerVars, cfg, queue, unfinished, in_queue, loop,
                   robot_parsers, trap, links, resources, crawled_count, exc,
                   hist>>


(***************************************************************************)
(* CrawlerManager.worker.  The coroutines share one event loop: a worker   *)
(* keeps it from the return of queue.get() to its next await that          *)
(* suspends (run_in_executor, or queue.get() on an empty queue); the       *)
(* uncontended lock and the unbounded put do not suspend.  The executor    *)
(* threads run beside the loop.                                            *)
(***************************************************************************)
(* Who runs next on the loop once worker w is back at queue.get(). *)
LoopAfter(w, q) == IF q # <<>> THEN w ELSE 0

(* Lines 1240-1243: the handler of an exception in the worker. *)
HandlerDoneMutAlways(q, n) == n - 1

HandlerDone(q, n) == IF q # <<>> THEN n - 1 ELSE n

(* Lines 1204-1206: the parser of the URL's host denies the fetch. *)
RobotsDeniedMutNever(parser, url) == FALSE

RobotsDenied(parser, url) == parser = "policy" /\ RobotsDisallows(url)

(* Line 1212 *)
TooDeepMutOffByOne(depth) == depth > MaxDepth + 1

TooDeep(depth) == depth > MaxDepth

(* Lines 1200-1223: take an item; skip it on a robots denial or beyond *)
(* max_depth, else hand it to crawl_page on an executor thread.        *)
WorkerGet(w) ==
    /\ mgr.pc = "join"
    /\ wk[w].pc = "get"
    /\ queue # <<>>
    /\ loop \in {0, w}
    /\ LET item   == Head(queue)
           rest   == Tail(queue)
           domain == Netloc(item.url)
           noted  == IF cfg.disregard_robots THEN hist
                     ELSE RobotsNoted(hist, domain)
       IN  \E fetched_robots \in {"policy", "none"} :
             LET parser == IF cfg.disregard_robots THEN "unused"
                           ELSE IF Cached(robot_parsers, domain)
                                THEN robot_parsers[domain]
                                ELSE fetched_robots
             IN  /\ robot_parsers' =
                        IF cfg.disregard_robots \/ Cached(robot_parsers, domain)
                        THEN robot_parsers
                        ELSE [d \in DOMAIN robot_parsers \cup {domain} |->
                                IF d = domain THEN fetched_robots
                                ELSE robot_parsers[d]]
                 /\ queue' = rest
                 /\ IF ~cfg.disregard_robots /\ RobotsDenied(parser, item.url)
                    THEN /\ pages' = UpdatePageCrawl(pages, item.id,
                                        PageData(403, "Disallowed by robots.txt"))
                         /\ unfinished' = unfinished - 1
                         /\ hist' = [noted EXCEPT
                                        !.attempts = Bump(@, item.id),
                                        !.deq = Bump(@, item.id),
                                        !.taken = @ \cup {item},
                                        !.robots_skipped = @ \cup {item}]
                         /\ loop' = LoopAfter(w, rest)
                         /\ wk' = wk
                    ELSE IF TooDeep(item.depth)
                    THEN /\ pages' = UpdatePageCrawl(pages, item.id,
                                        PageData(0, "Max depth reached"))
                         /\ unfinished' = unfinished - 1
                         /\ hist' = [noted EXCEPT
                                        !.attempts = Bump(@, item.id),
                                        !.deq = Bump(@, item.id),
                                        !.taken = @ \cup {item},
                                        !.depth_skipped = @ \cup {item}]
                         /\ loop' = LoopAfter(w, rest)
                         /\ wk' = wk
                    ELSE /\ wk' = [wk EXCEPT ![w] =
                                     [IdleWorker("fetch") EXCEPT !.item = item]]
                         /\ hist' = [noted EXCEPT !.deq = Bump(@, item.id),
                                                   !.taken = @ \cup {item},
                                                   !.fetched = @ \cup {item}]
                         /\ loop' = 0
                         /\ UNCHANGED <<pages, unfinished>>
    /\ UNCHANGED <<nextId, callerVars, cfg, mgr, in_queue, trap, links,
                   resources, crawled_count, exc>>

(* An exception between queue.get() and the first page update. *)
WorkerGetRaise(w) ==
    /\ mgr.pc = "join"
    /\ wk[w].pc = "get"
    /\ queue # <<>>
    /\ loop \in {0, w}
    /\ exc < MaxExc
    /\ queue' = Tail(queue)
    /\ unfinished' = HandlerDone(Tail(queue), unfinished)
    /\ loop' = LoopAfter(w, Tail(queue))
    /\ exc' = exc + 1
    /\ hist' = [hist EXCEPT !.deq = Bump(@, Head(queue).id)]
    /\ UNCHANGED <<storeVars, callerVars, cfg, mgr, in_queue, wk,
                   robot_parsers, trap, links, resources, crawled_count>>

(***************************************************************************)
(* WebCrawler.crawl_page on the executor thread of worker w.               *)
(***************************************************************************)
(* After link li: the next link, or the resources and the return. *)
LinksDone(r) == r.li >= Len(SiteLinks(r.item.url))

AfterLink(r) ==
    IF LinksDone(r) THEN [r EXCEPT !.pc = "ready", !.ap = IdleFrame]
    ELSE [r EXCEPT !.pc = "links", !.li = @ + 1, !.ap = IdleFrame]

(* Lines 1072-1074 *)
ResourcesAfter(res, r) ==
    IF LinksDone(r) /\ SiteResources(r.item.url) > 0
    THEN [x \in DOMAIN res \cup {r.item.id} |->
            Count(res, x) + (IF x = r.item.id THEN SiteResources(r.item.url) ELSE 0)]
    ELSE res

(* What a fetch can give: the page, another status than 200, or an   *)
(* exception; the browser fetcher reports 200 whenever it loads (line *)
(* 1158).                                                             *)
FetchOutcomes(sel) ==
    IF sel THEN {"ok", "error"} ELSE {"ok", "status", "error"}

(* crawl_page (line 1169) on the thread of worker w has the driver in *)
(* hand from driver.get (line 1119) to driver.title (line 1157).      *)
UsesDriver(w) ==
    /\ cfg.use_selenium
    /\ wk[w].pc \in {"fetch", "links", "ext_insert", "ext_requery"}

(* crawl_page_static, lines 1085-1111, or crawl_page_selenium, lines *)
(* 1118-1158, to the first link.                                     *)
ThreadFetch(w) ==
    /\ wk[w].pc = "fetch"
    /\ \E outcome \in FetchOutcomes(cfg.use_selenium) :
         LET r == wk[w]
         IN  CASE outcome = "ok" ->
                    LET r2 == [r EXCEPT !.data = PageData(200, NULL), !.li = 0]
                    IN  /\ wk' = [wk EXCEPT ![w] = AfterLink(r2)]
                        /\ resources' = ResourcesAfter(resources, r2)
               [] outcome = "status" ->
                    /\ wk' = [wk EXCEPT ![w] = [r EXCEPT !.pc = "ready",
                                                  !.data = PageData(404, NULL)]]
                    /\ resources' = resources
               [] outcome = "error" ->
                    /\ wk' = [wk EXCEPT ![w] = [r EXCEPT !.pc = "ready",
                                    !.data = PageData(NoStatus, "fetch failed")]]
                    /\ resources' = resources
    /\ UNCHANGED <<storeVars, callerVars, cfg, mgr, queue, unfinished, in_queue,
                   loop, robot_parsers, trap, links, crawled_count, exc, hist>>

(* Line 1063 *)
GoesToQueueMutAll(internal) == TRUE

GoesToQueue(internal) == internal

(* Line 1064 *)
DepthAdmitsMutLeq(depth) == depth <= MaxDepth

DepthAdmits(depth) == depth < MaxDepth

(* _process_page_content, lines 1057-1069, for one link: add_link, the *)
(* canonical form and the trap check; an internal link is returned to  *)
(* the worker, an external one starts add_page (its lookup).           *)
ThreadLink(w) ==
    /\ wk[w].pc = "links"
    /\ LET r        == wk[w]
           target   == SiteLinks(r.item.url)[r.li]
           internal == is_internal(target, mgr.domain_to_crawl)
           norm     == normalize_url_advanced(target)
           dropped  == norm = NoURL \/ is_trap(trap, norm)
       IN  /\ links' = AddLink(links, r.item.id, target)
           /\ trap' = IF norm = NoURL THEN trap ELSE trap_after(trap, norm)
           /\ IF dropped
              THEN /\ wk' = [wk EXCEPT ![w] = AfterLink(r)]
                   /\ resources' = ResourcesAfter(resources, r)
                   /\ hist' = hist
              ELSE IF GoesToQueue(internal)
              THEN LET r2 == IF DepthAdmits(r.item.depth)
                             THEN [r EXCEPT !.new_pages = Append(@,
                                     [url |-> target, norm |-> norm,
                                      parent |-> r.item.url,
                                      depth |-> r.item.depth + 1])]
                             ELSE r
                   IN  /\ wk' = [wk EXCEPT ![w] = AfterLink(r2)]
                       /\ resources' = ResourcesAfter(resources, r)
                       /\ hist' = IF DepthAdmits(r.item.depth)
                                  THEN [hist EXCEPT !.disc = @ \cup {<<w, norm>>}]
                                  ELSE hist
              ELSE LET f == Frame(target, norm, NoURL, 0)
                   IN  IF LookupResult(pages, f) # None
                       THEN /\ wk' = [wk EXCEPT ![w] = AfterLink(r)]
                            /\ resources' = ResourcesAfter(resources, r)
                            /\ hist' = hist
                       ELSE /\ wk' = [wk EXCEPT ![w] =
                                        [r EXCEPT !.pc = "ext_insert",
                                                  !.ap = [f EXCEPT !.pc = "insert"]]]
                            /\ resources' = resources
                            /\ hist' = hist
    /\ UNCHANGED <<storeVars, callerVars, cfg, mgr, queue, unfinished, in_queue,
                   loop, robot_parsers, crawled_count, exc>>

(* add_page of an external link: the INSERT or its IntegrityError. *)
ThreadExtInsert(w) ==
    /\ wk[w].pc = "ext_insert"
    /\ LET r == wk[w]
       IN  IF UniqueOk(pages, r.ap.url, r.ap.norm)
           THEN /\ pages' = InsertedPages(pages, nextId, r.ap)
                /\ nextId' = nextId + 1
                /\ hist' = [hist EXCEPT !.ext_rows = @ \cup {nextId}]
                /\ wk' = [wk EXCEPT ![w] = AfterLink(r)]
                /\ resources' = ResourcesAfter(resources, r)
           ELSE /\ wk' = [wk EXCEPT ![w] = [r EXCEPT !.pc = "ext_requery",
                                                     !.ap.raced = TRUE]]
                /\ UNCHANGED <<pages, nextId, hist, resources>>
    /\ UNCHANGED <<callerVars, cfg, mgr, queue, unfinished, in_queue, loop,
                   robot_parsers, trap, links, crawled_count, exc>>

(* add_page of an external link: the re-query; the id is not used. *)
ThreadExtRequery(w) ==
    /\ wk[w].pc = "ext_requery"
    /\ wk' = [wk EXCEPT ![w] = AfterLink(wk[w])]
    /\ resources' = ResourcesAfter(resources, wk[w])
    /\ UNCHANGED <<storeVars, callerVars, cfg, mgr, queue, unfinished, in_queue,
                   loop, robot_parsers, trap, links, crawled_count, exc, hist>>


(***************************************************************************)
(* The worker back on the event loop once crawl_page has returned          *)
(* (lines 1225-1237).                                                      *)
(***************************************************************************)
(* Lines 1231-1235 for the id add_page gave: what the queue, its count, *)
(* in_queue and the history become.                                      *)
Enqueued(id, child) ==
    LET put == id # None /\ ShouldEnqueue(id, in_queue)
    IN  [queue      |-> IF put THEN Append(queue, Item(id, child.url, child.depth))
                        ELSE queue,
         unfinished |-> IF put THEN unfinished + 1 ELSE unfinished,
         in_queue   |-> IF put THEN in_queue \cup {id} ELSE in_queue,
         hist       |-> IF put THEN [hist EXCEPT !.enq = Bump(@, id)] ELSE hist]

(* The next child, or line 1237 (task_done) and back to queue.get(). *)
ChildrenDone(r) == r.ci >= Len(r.new_pages)

AfterChild(w, id) ==
    LET r == wk[w]
        e == Enqueued(id, r.new_pages[r.ci])
    IN  /\ in_queue' = e.in_queue
        /\ hist' = e.hist
        /\ queue' = e.queue
        /\ IF ChildrenDone(r)
           THEN /\ unfinished' = e.unfinished - 1
                /\ wk' = [wk EXCEPT ![w] = IdleWorker("get")]
                /\ loop' = LoopAfter(w, e.queue)
           ELSE /\ unfinished' = e.unfinished
                /\ wk' = [wk EXCEPT ![w] = [r EXCEPT !.pc = "child", !.ci = @ + 1,
                                                     !.ap = IdleFrame]]
                /\ loop' = w

(* The worker's task is resumed with the result of run_in_executor   *)
(* (line 1221) only while run() waits in queue.join(); once the tasks *)
(* are cancelled the result is dropped (lines 1238-1239).             *)
TaskAliveMutAlways(pc) == TRUE

TaskAlive(pc) == pc = "join"

(* Lines 1225-1226, and line 1237 when the page gave no children. *)
WorkerCommit(w) ==
    /\ TaskAlive(mgr.pc)
    /\ wk[w].pc = "ready"
    /\ loop = 0
    /\ LET r == wk[w]
       IN  /\ pages' = UpdatePageCrawl(pages, r.item.id, r.data)
           /\ crawled_count' = crawled_count + 1
           /\ hist' = [hist EXCEPT !.attempts = Bump(@, r.item.id)]
           /\ IF r.new_pages = <<>>
              THEN /\ unfinished' = unfinished - 1
                   /\ wk' = [wk EXCEPT ![w] = IdleWorker("get")]
                   /\ loop' = LoopAfter(w, queue)
              ELSE /\ unfinished' = unfinished
                   /\ wk' = [wk EXCEPT ![w] = [r EXCEPT !.pc = "child", !.ci = 1]]
                   /\ loop' = w
    /\ UNCHANGED <<nextId, callerVars, cfg, mgr, queue, in_queue, robot_parsers,
                   trap, links, resources, exc>>

(* update_page_crawl raises: nothing is written; the handler runs. *)
WorkerCommitRaise(w) ==
    /\ TaskAlive(mgr.pc)
    /\ wk[w].pc = "ready"
    /\ loop = 0
    /\ exc < MaxExc
    /\ unfinished' = HandlerDone(queue, unfinished)
    /\ wk' = [wk EXCEPT ![w] = IdleWorker("get")]
    /\ loop' = LoopAfter(w, queue)
    /\ exc' = exc + 1
    /\ UNCHANGED <<storeVars, callerVars, cfg, mgr, queue, in_queue,
                   robot_parsers, trap, links, resources, crawled_count, hist>>

(* Line 1230: add_page of a child, its lookup. *)
WorkerChild(w) ==
    /\ wk[w].pc = "child"
    /\ loop = w
    /\ LET r  == wk[w]
           c  == r.new_pages[r.ci]
           f  == Frame(c.url, c.norm, c.parent, c.depth)
           id == LookupResult(pages, f)
       IN  IF id # None
           THEN AfterChild(w, id)
           ELSE /\ wk' = [wk EXCEPT ![w] = [r EXCEPT !.pc = "child_insert",
                                              !.ap = [f EXCEPT !.pc = "insert"]]]
                /\ UNCHANGED <<queue, unfinished, in_queue, hist, loop>>
    /\ UNCHANGED <<storeVars, callerVars, cfg, mgr, robot_parsers, trap, links,
                   resources, crawled_count, exc>>

(* add_page of a child: the INSERT, or its IntegrityError. *)
WorkerChildInsert(w) ==
    /\ wk[w].pc = "child_insert"
    /\ loop = w
    /\ LET r == wk[w]
       IN  IF UniqueOk(pages, r.ap.url, r.ap.norm)
           THEN /\ pages' = InsertedPages(pages, nextId, r.ap)
                /\ nextId' = nextId + 1
                /\ AfterChild(w, nextId)
           ELSE /\ wk' = [wk EXCEPT ![w] = [r EXCEPT !.pc = "child_requery",
                                                     !.ap.raced = TRUE]]
                /\ UNCHANGED <<storeVars, queue, unfinished, in_queue, hist, loop>>
    /\ UNCHANGED <<callerVars, cfg, mgr, robot_parsers, trap, links, resources,
                   crawled_count, exc>>

(* add_page of a child: the re-query after the IntegrityError. *)
WorkerChildRequery(w) ==
    /\ wk[w].pc = "child_requery"
    /\ loop = w
    /\ AfterChild(w, RequeryResult(pages, wk[w].ap))
    /\ UNCHANGED <<storeVars, callerVars, cfg, mgr, robot_parsers, trap, links,
                   resources, crawled_count, exc>>

(* An exception while the children are added (lines 1229-1235). *)
WorkerChildRaise(w) ==
    /\ wk[w].pc \in {"child", "child_insert", "child_requery"}
    /\ loop = w
    /\ exc < MaxExc
    /\ unfinished' = HandlerDone(queue, unfinished)
    /\ wk' = [wk EXCEPT ![w] = IdleWorker("get")]
    /\ loop' = LoopAfter(w, queue)
    /\ exc' = exc + 1
    /\ UNCHANGED <<storeVars, callerVars, cfg, mgr, queue, in_queue,
                   robot_parsers, trap, links, resources, crawled_count, hist>>

(***************************************************************************)
(* main, lines 1372-1380: KeyboardInterrupt ends asyncio.run; run() is     *)
(* left where it stands, every worker task is cancelled, and the store is  *)
(* closed.  A crawl_page call already on an executor thread is not         *)
(* cancelled: it runs on, and its result is dropped.                       *)
(***************************************************************************)
OnThread(pc) == pc \in {"fetch", "links", "ext_insert", "ext_requery", "ready"}

RunInterrupt ==
    /\ mgr.pc \in {"preload_query", "preload_test", "join"}
    /\ mgr' = [mgr EXCEPT !.pc = "interrupted"]
    /\ wk' = [w \in Workers |->
                IF OnThread(wk[w].pc) \/ wk[w].pc = "none" THEN wk[w]
                ELSE [wk[w] EXCEPT !.pc = "cancelled"]]
    /\ loop' = 0
    /\ UNCHANGED <<storeVars, callerVars, cfg, queue, unfinished, in_queue,
                   robot_parsers, trap, links, resources, crawled_count, exc,
                   hist>>

(***************************************************************************)
(* The store's operations called one after another by a single caller, on  *)
(* a store that is empty or holds pages of two hosts with links, resources *)
(* and javascript events attached.                                         *)
(***************************************************************************)
MaxOps == 3

OpsURLs == {PX, PXf, PY, PZ, Ext}

OpsDomains == {Netloc(u) : u \in OpsURLs}

(* The page ids a call can name: those of the rows there can be. *)
OpsIds == 1..(3 + MaxOps)

OpsPages ==
    LET st == AddPageSeq(AddPageSeq(AddPageSeq(EmptyStore,
                  PX, normalize_url_advanced(PX), Root, 1),
                  PY, normalize_url_advanced(PY), Sitemap, 0),
                  Ext, normalize_url_advanced(Ext), NoURL, 0)
    IN  [st EXCEPT !.pages = UpdatePageCrawl(
                                 UpdatePageCrawl(st.pages, 1, PageData(200, NULL)),
                                 3, PageData(200, NULL))]

OpsLinks == AddLink(AddLink({}, 1, PY), 3, PX)

OpsRows == [id \in {1, 3} |-> 1]

OpsRest == <<call, returned, ncalls, tcall, tlog, nz, doc, cfg, mgr, queue, unfinished,
             in_queue, wk, loop, robot_parsers, trap, crawled_count, exc, hist>>

(* The call now made: its arguments, its result, the tables before it, *)
(* and whether it repeats the call before it.                           *)
OpRec(name, id, url, norm, domain, result) ==
    [n |-> op.n + 1, name |-> name,
     again |-> /\ op.name = name /\ op.id = id /\ op.url = url
               /\ op.norm = norm /\ op.domain = domain,
     id |-> id, url |-> url, norm |-> norm, depth |-> 0, domain |-> domain,
     result |-> result, data |-> <<>>, now |-> 0,
     pages0 |-> pages, links0 |-> links, resources0 |-> resources,
     events0 |-> events]

(* add_page(url, normalized_url, depth=depth) *)
OpAddPage(u, n, depth) ==
    /\ op.n < MaxOps
    /\ LET st == [pages |-> pages, nextId |-> nextId]
           after == AddPageSeq(st, u, n, NoURL, depth)
       IN  /\ pages' = after.pages
           /\ nextId' = after.nextId
           /\ op' = [OpRec("add_page", None, u, n, NoDomain, AddPageResult(st, u, n))
                        EXCEPT !.depth = depth]
    /\ UNCHANGED <<links, resources, events>>
    /\ UNCHANGED OpsRest

(* update_page_crawl(id, {'status_code': 200}) *)
OpUpdate(id) ==
    /\ op.n < MaxOps
    /\ id \in DOMAIN pages
    /\ pages' = UpdatePageCrawl(pages, id, PageData(200, NULL))
    /\ op' = OpRec("update_page_crawl", id, NoURL, NoURL, NoDomain, None)
    /\ UNCHANGED <<nextId, links, resources, events>>
    /\ UNCHANGED OpsRest

(* add_link(id, {'target_url': target}) *)
OpAddLink(id, target) ==
    /\ op.n < MaxOps
    /\ id \in DOMAIN pages
    /\ links' = AddLink(links, id, target)
    /\ op' = OpRec("add_link", id, target, NoURL, NoDomain, None)
    /\ UNCHANGED <<pages, nextId, resources, events>>
    /\ UNCHANGED OpsRest

(* add_resource(id, ...), lines 326-341 *)
OpAddResource(id) ==
    /\ op.n < MaxOps
    /\ id \in DOMAIN pages
    /\ resources' = Bump(resources, id)
    /\ op' = OpRec("add_resource", id, NoURL, NoURL, NoDomain, None)
    /\ UNCHANGED <<pages, nextId, links, events>>
    /\ UNCHANGED OpsRest

(* add_javascript_event(id, ...), lines 310-324 *)
OpAddEvent(id) ==
    /\ op.n < MaxOps
    /\ id \in DOMAIN pages
    /\ events' = Bump(events, id)
    /\ op' = OpRec("add_javascript_event", id, NoURL, NoURL, NoDomain, None)
    /\ UNCHANGED <<pages, nextId, links, resources>>
    /\ UNCHANGED OpsRest

(* reset_domain_crawl_status(domain) *)
OpReset(domain) ==
    /\ op.n < MaxOps
    /\ pages' = ResetDomain(pages, domain)
    /\ op' = OpRec("reset_domain_crawl_status", None, NoURL, NoURL, domain, None)
    /\ UNCHANGED <<nextId, links, resources, events>>
    /\ UNCHANGED OpsRest

(* delete_domain_data(domain) *)
OpDelete(domain) ==
    /\ op.n < MaxOps
    /\ links' = DeleteDomainLinks(links, pages, domain)
    /\ events' = DeleteDomainRows(events, pages, domain)
    /\ resources' = DeleteDomainRows(resources, pages, domain)
    /\ pages' = DeleteDomainPages(pages, domain)
    /\ op' = OpRec("delete_domain_data", None, NoURL, NoURL, domain, None)
    /\ UNCHANGED nextId
    /\ UNCHANGED OpsRest

(* get_next_uncrawled(domain); NoDomain stands for no domain given. *)
OpNext(domain) ==
    /\ op.n < MaxOps
    /\ op' = OpRec("get_next_uncrawled", None, NoURL, NoURL, domain,
                   get_next_uncrawled(pages, domain))
    /\ UNCHANGED <<pages, nextId, links, resources, events>>
    /\ UNCHANGED OpsRest

(***************************************************************************)
(* The specifications.                                                     *)
(***************************************************************************)
Next ==
    \/ RunSetupNewScan
    \/ RunSetupUpdate
    \/ RunSetupContinue
    \/ RunPreloadQuery
    \/ RunPreloadTest
    \/ RunJoin
    \/ \E w \in Workers : WorkerGet(w)
    \/ \E w \in Workers : WorkerGetRaise(w)
    \/ \E w \in Workers : ThreadFetch(w)
    \/ \E w \in Workers : ThreadLink(w)
    \/ \E w \in Workers : ThreadExtInsert(w)
    \/ \E w \in Workers : ThreadExtRequery(w)
    \/ \E w \in Workers : WorkerCommit(w)
    \/ \E w \in Workers : WorkerCommitRaise(w)
    \/ \E w \in Workers : WorkerChild(w)
    \/ \E w \in Workers : WorkerChildInsert(w)
    \/ \E w \in Workers : WorkerChildRequery(w)
    \/ \E w \in Workers : WorkerChildRaise(w)

Spec == Init /\ [][Next]_vars

(* The event loop and the executor threads keep running. *)
FairSpec == Spec /\ WF_vars(Next)

(* A run that may be interrupted from outside. *)
NextShutdown == Next \/ RunInterrupt

SpecShutdown == Init /\ [][NextShutdown]_vars

(* A run with the browser fetcher. *)
SpecSelenium == InitSelenium /\ [][Next]_vars

(***************************************************************************)
(* normalize_url_advanced on its own.  The URLs it is given: every mix of  *)
(* three spellings of the scheme and two of the host, no port, a default   *)
(* one or another, and a fragment or none; six queries (two orders of two  *)
(* keys, a tracking parameter, and a key written twice in either order)    *)
(* with a fragment or none; and the href "JavaScript:".                    *)
(***************************************************************************)
NormQueries ==
    { <<>>,
      << <<"b","2">>, <<"a","1">> >>,
      << <<"a","1">>, <<"b","2">> >>,
      << <<"a","1">>, <<"utm_source","g">>, <<"b","2">> >>,
      << <<"a","1">>, <<"a","2">> >>,
      << <<"a","2">>, <<"a","1">> >> }

NormURLs ==
    { URL(s, h, p, <<"x">>, <<>>, f) :
        s \in {"http", "HTTP", "https"}, h \in {"a.com", "A.com"},
        p \in {"", "80", "443"}, f \in {"", "s"} }
      \cup { URL("http", "a.com", "", <<"x">>, q, f) :
                q \in NormQueries, f \in {"", "s"} }
      \cup {JsUpper}

NormRest == <<storeVars, call, returned, ncalls, op, doc, events, tcall, tlog, crawlVars>>

(* normalize_url_advanced(url, url) and normalize_url_advanced(other, other) *)
Normalize(u, v) ==
    /\ nz.stage = "none"
    /\ nz' = [stage |-> "once", url |-> u, other |-> v,
              norm |-> normalize_url_advanced(u),
              other_norm |-> normalize_url_advanced(v), again |-> NoURL]
    /\ UNCHANGED NormRest

(* The first result, when there is one, is normalised again. *)
NormalizeAgain ==
    /\ nz.stage = "once"
    /\ nz.norm # NoURL
    /\ nz' = [nz EXCEPT !.stage = "twice",
                        !.again = normalize_url_advanced(nz.norm)]
    /\ UNCHANGED NormRest

InitNorm ==
    /\ NoCallers
    /\ tlog = EmptyTrapLog
    /\ InitCrawl("normalize", EmptyStore, FALSE, NoURL, FALSE)

NextNorm ==
    \/ \E u \in NormURLs, v \in NormURLs : Normalize(u, v)
    \/ NormalizeAgain

SpecNorm == InitNorm /\ [][NextNorm]_vars

(* The store with concurrent add_page callers. *)
InitStore ==
    /\ NoCallers
    /\ tlog = EmptyTrapLog
    /\ InitCrawl("store", EmptyStore, FALSE, NoURL, FALSE)

NextStore ==
    \/ \E c \in Callers, u \in StoreURLs : StoreLookup(c, u)
    \/ \E c \in Callers : StoreInsert(c)
    \/ \E c \in Callers : StoreRequery(c)

SpecStore == InitStore /\ [][NextStore]_vars

(* The store's operations one after another. *)
NoRun(entry) ==
    /\ cfg = [entry |-> entry, disregard_robots |-> FALSE, start_url |-> NoURL,
              use_selenium |-> FALSE]
    /\ mgr = [pc |-> "setup", domain_to_crawl |-> NoDomain, page |-> None]
    /\ queue = <<>>
    /\ unfinished = 0
    /\ in_queue = {}
    /\ wk = [w \in Workers |-> IdleWorker("none")]
    /\ loop = 0
    /\ robot_parsers = <<>>
    /\ crawled_count = 0
    /\ exc = 0
    /\ hist = InitHist(<<>>, <<>>)

InitOps ==
    /\ NoCallers
    /\ tlog = EmptyTrapLog
    /\ NoRun("ops")
    /\ trap = <<>>
    /\ \E full \in BOOLEAN :
          /\ pages = IF full THEN OpsPages.pages ELSE <<>>
          /\ nextId = IF full THEN OpsPages.nextId ELSE 1
          /\ links = IF full THEN OpsLinks ELSE {}
          /\ resources = IF full THEN OpsRows ELSE <<>>
          /\ events = IF full THEN OpsRows ELSE <<>>

NextOps ==
    \/ \E u \in OpsURLs, v \in {PZ}, depth \in {0, 1} :
          \E n \in {normalize_url_advanced(u), normalize_url_advanced(v)} :
             OpAddPage(u, n, depth)
    \/ \E id \in OpsIds : OpUpdate(id)
    \/ \E id \in OpsIds, target \in {PX, PY} : OpAddLink(id, target)
    \/ \E id \in OpsIds : OpAddResource(id)
    \/ \E id \in OpsIds : OpAddEvent(id)
    \/ \E domain \in OpsDomains : OpReset(domain)
    \/ \E domain \in OpsDomains : OpDelete(domain)
    \/ \E domain \in OpsDomains \cup {NoDomain} : OpNext(domain)

SpecOps == InitOps /\ [][NextOps]_vars

(* The trap detector asked by one thread. *)
InitTrap ==
    /\ NoCallers
    /\ tlog = EmptyTrapLog
    /\ InitCrawl("trap", EmptyStore, FALSE, NoURL, FALSE)

NextTrapSerial == \E u \in TrapURLs : TrapCallSerial(u)

SpecTrapSerial == InitTrap /\ [][NextTrapSerial]_vars

(* The trap detector asked by the executor's threads, its memory empty or *)
(* one key set short of the limit for /p after earlier calls.             *)
InitTrapRace ==
    /\ NoCallers
    /\ NoRun("trap")
    /\ pages = <<>>
    /\ nextId = 1
    /\ links = {}
    /\ resources = <<>>
    /\ events = <<>>
    /\ \E near \in BOOLEAN :
          /\ trap = IF near THEN TrapNearLimit ELSE <<>>
          /\ tlog = IF near
                    THEN [EmptyTrapLog EXCEPT
                            !.seen = {Signature(u) : u \in TrapEarlier},
                            !.admitted = {Signature(u) : u \in TrapEarlier}]
                    ELSE EmptyTrapLog

NextTrap ==
    \/ \E t \in Workers, u \in TrapURLs : TrapGet(t, u)
    \/ \E t \in Workers : TrapTest(t)
    \/ \E t \in Workers : TrapCheck(t)
    \/ \E t \in Workers : TrapStore(t)

SpecTrap == InitTrapRace /\ [][NextTrap]_vars

(***************************************************************************)
(* The detector asked, one call after the other, about paths at and over   *)
(* its two limits on the path: 10, 11, 20 and 21 distinct segments, one    *)
(* segment 3 and 4 times, the two paths of test_is_trap_repeating_segments *)
(* (one segment 5 and 6 times), and two further key sets of /p.            *)
(***************************************************************************)
Deep(n) == TU([i \in 1..n |-> ToString(i)], <<>>)

Repeated(n) == TU([i \in 1..n |-> "r"], <<>>)

FiveTimes == TU(<<"a", "b", "a", "c", "a", "d", "a", "e", "a">>, <<>>)

SixTimes == TU(<<"a", "b", "a", "c", "a", "d", "a", "e", "a", "f", "a">>, <<>>)

TrapPathURLs ==
    { Deep(10), Deep(11), Deep(20), Deep(21), Repeated(3), Repeated(4),
      FiveTimes, SixTimes,
      TU(<<"p">>, << <<"c","1">> >>),
      TU(<<"p">>, << <<"a","1">>, <<"c","1">> >>) }

NextTrapPath == \E u \in TrapPathURLs : TrapCallSerial(u)

SpecTrapPath == InitTrapRace /\ [][NextTrapPath]_vars

(***************************************************************************)
(* LinkDetector.extract_static_links on the anchors of a parsed document,  *)
(* and add_link on the links it returns.  The rel attribute of an anchor   *)
(* is absent, or a text: words and spaces, where words written with no     *)
(* space between them are one longer word.                                 *)
(***************************************************************************)
MaxRelLen == 3

Space == " "

RelWords == {"nofollow", "noopener", "NoFollow"}

NoAttr == [present |-> FALSE, text |-> <<>>]

Attr(text) == [present |-> TRUE, text |-> text]

RelValues ==
    {NoAttr} \cup
    {Attr(t) : t \in UNION {[1..k -> RelWords \cup {Space}] : k \in 0..MaxRelLen}}

(* BeautifulSoup with html.parser holds rel as a list: the runs of *)
(* characters that are not whitespace, in the order written.       *)
RECURSIVE SplitWords(_, _, _)
SplitWords(text, done, word) ==
    IF text = <<>>
    THEN IF word = <<>> THEN done ELSE Append(done, word)
    ELSE IF Head(text) = Space
         THEN SplitWords(Tail(text),
                         IF word = <<>> THEN done ELSE Append(done, word), <<>>)
         ELSE SplitWords(Tail(text), done, Append(word, Head(text)))

(* tag.get('rel'): the list; None (here the empty list, told apart by *)
(* present) when the anchor has no rel.                               *)
RelList(attr) == SplitWords(attr.text, <<>>, <<>>)

(* ' '.join(words) *)
RECURSIVE Join(_)
Join(words) ==
    IF words = <<>> THEN <<>>
    ELSE IF Len(words) = 1 THEN words[1]
    ELSE words[1] \o <<Space>> \o Join(Tail(words))

(* A rel that is None, and the NULL stored for it. *)
NoRelStr == <<NULL>>

(* Line 508 *)
rel_str(attr) == IF attr.present THEN Join(RelList(attr)) ELSE NoRelStr

(* Line 509 *)
is_followMutSubstring(attr) ==
    ~(attr.present /\ \E i \in 1..Len(attr.text) : attr.text[i] = "nofollow")

is_follow(attr) ==
    ~(attr.present /\ \E i \in 1..Len(RelList(attr)) :
                          RelList(attr)[i] = <<"nofollow">>)

(* LinkDetector.normalize_url on an absolute href: None for the empty   *)
(* text and for one that starts with '#', 'javascript:', 'mailto:' or   *)
(* 'tel:', the href as written otherwise.                               *)
normalize_url(u) ==
    IF u.scheme \in {"", "#", "javascript", "mailto", "tel"} THEN NoURL ELSE u

(* An href that is a fragment of the page itself. *)
Fragment == URL("#", "", "", <<>>, <<>>, "top")

Anchor(href, rel) == [href |-> href, rel |-> rel]

LinkDict(a) ==
    [target_url |-> normalize_url(a.href), type |-> "anchor",
     rel |-> rel_str(a.rel), is_follow |-> is_follow(a.rel)]

(* Lines 504-526: one dict for each anchor whose href resolves. *)
extract_static_links(anchors) ==
    LET kept == SelectSeq(anchors, LAMBDA a : normalize_url(a.href) # NoURL)
    IN  [i \in 1..Len(kept) |-> LinkDict(kept[i])]

(* DatabaseManager.add_link with the columns link_rel and is_follow. *)
AddLinkData(lks, source, link) ==
    IF LinkExists(lks, source, link.target_url)
    THEN lks
    ELSE lks \cup {[id |-> LinkId(lks), source |-> source,
                    target |-> link.target_url, link_rel |-> link.rel,
                    is_follow |-> link.is_follow]}

(* Lines 1057-1058: add_link for every link found, in order. *)
RECURSIVE AddLinks(_, _, _)
AddLinks(lks, source, found) ==
    IF found = <<>> THEN lks
    ELSE AddLinks(AddLinkData(lks, source, Head(found)), source, Tail(found))

(* The documents: one anchor, or that anchor followed by another to the *)
(* same page or to a second page.                                       *)
Anchors == {Anchor(h, r) : h \in {PX, Fragment}, r \in RelValues}

SecondAnchors == {Anchor(PX, Attr(<<"nofollow">>)), Anchor(PY, NoAttr)}

AnchorLists ==
    {<<a>> : a \in Anchors} \cup {<<a, b>> : a \in Anchors, b \in SecondAnchors}

DocRest == <<storeVars, call, returned, ncalls, op, nz, events, tcall, tlog,
             crawlVars>>

ExtractStaticLinks ==
    /\ doc.stage = "none"
    /\ \E anchors \in AnchorLists :
         doc' = [doc EXCEPT !.stage = "extracted", !.anchors = anchors,
                            !.found = extract_static_links(anchors)]
    /\ UNCHANGED DocRest

ProcessLinks ==
    /\ doc.stage = "extracted"
    /\ doc' = [doc EXCEPT !.stage = "stored",
                          !.rows = AddLinks({}, 1, doc.found)]
    /\ UNCHANGED DocRest

InitDoc ==
    /\ NoCallers
    /\ tlog = EmptyTrapLog
    /\ InitCrawl("document", EmptyStore, FALSE, NoURL, FALSE)

NextLinks == ExtractStaticLinks \/ ProcessLinks

SpecLinks == InitDoc /\ [][NextLinks]_vars

(***************************************************************************)
(* ResourceExtractor on a parsed document.  An element has a name, its     *)
(* attributes and its child elements; the value of a URL attribute is a    *)
(* file name, <<stem, extension>>, and <<>> stands for None and for the    *)
(* empty text.                                                             *)
(***************************************************************************)
NoValue == <<>>

File(stem, ext) == <<stem, ext>>

Elem(name, attrs, children) ==
    [name |-> name, attrs |-> attrs, children |-> children]

(* tag.get(attr) *)
Get(tag, attr) ==
    IF attr \in DOMAIN tag.attrs THEN tag.attrs[attr] ELSE NoValue

(* The elements of a tree in document order, as find_all visits them. *)
RECURSIVE Descendants(_)
Descendants(elems) ==
    IF elems = <<>> THEN <<>>
    ELSE <<Head(elems)>> \o Descendants(Head(elems).children)
                         \o Descendants(Tail(elems))

(* soup.find_all(name), tag.find_all(name) *)
find_all(elems, name) == SelectSeq(Descendants(elems), LAMBDA e : e.name = name)

(* ResourceExtractor._normalize_url (lines 652-656) *)
ResourceUrl(value) ==
    IF value = NoValue \/ value[1] \in {"javascript:", "mailto:", "tel:"}
    THEN NoValue
    ELSE <<"http://example.com">> \o value

Resource(url, type, tag, attr) ==
    [url |-> url, type |-> type, source_tag |-> tag, source_attribute |-> attr]

(* One resource for each of the tags whose attribute gives a URL. *)
RECURSIVE FromTags(_, _, _, _)
FromTags(tags, attr, type, source_tag) ==
    IF tags = <<>> THEN <<>>
    ELSE LET url == ResourceUrl(Get(Head(tags), attr))
         IN  (IF url # NoValue
              THEN <<Resource(url, type, source_tag, attr)>> ELSE <<>>)
             \o FromTags(Tail(tags), attr, type, source_tag)

(* The <source> children of each of the tags, tag after tag. *)
RECURSIVE SourcesOf(_)
SourcesOf(tags) ==
    IF tags = <<>> THEN <<>>
    ELSE find_all(Head(tags).children, "source") \o SourcesOf(Tail(tags))

(* re.search(r'url\((.*?)\)', style): the first url(...) of the style, *)
(* a sequence of declarations.                                         *)
StyleUrl(style) ==
    LET with == SelectSeq(style, LAMBDA d : d.url # NoValue)
    IN  IF with = <<>> THEN NoValue ELSE with[1].url

(* Lines 698-710 *)
RECURSIVE FromStyles(_)
FromStyles(tags) ==
    IF tags = <<>> THEN <<>>
    ELSE LET url == ResourceUrl(StyleUrl(Head(tags).attrs.style))
         IN  (IF url # NoValue
              THEN <<Resource(url, "image", Head(tags).name, "style")>>
              ELSE <<>>)
             \o FromStyles(Tail(tags))

extract_images(soup) ==
    FromTags(find_all(soup, "img"), "src", "image", "img")
        \o FromTags(SourcesOf(find_all(soup, "picture")), "srcset", "image", "picture")
        \o FromStyles(SelectSeq(Descendants(soup), LAMBDA e : "style" \in DOMAIN e.attrs))

(* Lines 716-764: the tag's own src, then its <source> children, for *)
(* each <video> or <audio>.                                          *)
RECURSIVE FromMedia(_, _)
FromMedia(tags, type) ==
    IF tags = <<>> THEN <<>>
    ELSE FromTags(<<Head(tags)>>, "src", type, type)
             \o FromTags(find_all(Head(tags).children, "source"), "src", type, "source")
             \o FromMedia(Tail(tags), type)

extract_videos(soup) == FromMedia(find_all(soup, "video"), "video")

extract_audios(soup) == FromMedia(find_all(soup, "audio"), "audio")

doc_extensions ==
    {".pdf", ".doc", ".docx", ".xls", ".xlsx", ".ppt", ".pptx", ".zip", ".rar"}

(* find_all(name, attr=True) *)
WithAttr(soup, name, attr) ==
    SelectSeq(find_all(soup, name), LAMBDA e : attr \in DOMAIN e.attrs)

extract_documents(soup) ==
    FromTags(SelectSeq(WithAttr(soup, "a", "href"),
                       LAMBDA e : /\ e.attrs.href # NoValue
                                  /\ e.attrs.href[Len(e.attrs.href)] \in doc_extensions),
             "href", "document", "a")

extract_scripts(soup) ==
    FromTags(WithAttr(soup, "script", "src"), "src", "script", "script")

(* rel='stylesheet' matches a <link> one of whose rel words is it. *)
extract_stylesheets(soup) ==
    FromTags(SelectSeq(WithAttr(soup, "link", "href"),
                       LAMBDA e : \E i \in 1..Len(Get(e, "rel")) :
                                      Get(e, "rel")[i] = "stylesheet"),
             "href", "stylesheet", "link")

(* The rel words that contain 'icon'. *)
IconWords == {"icon", "apple-touch-icon"}

extract_favicons(soup) ==
    FromTags(SelectSeq(WithAttr(soup, "link", "href"),
                       LAMBDA e : \E i \in 1..Len(Get(e, "rel")) :
                                      Get(e, "rel")[i] \in IconWords),
             "href", "favicon", "link")

extract_embedded_content(soup) ==
    FromTags(find_all(soup, "iframe"), "src", "embedded_iframe", "iframe")
        \o FromTags(find_all(soup, "embed"), "src", "embedded_embed", "embed")
        \o FromTags(find_all(soup, "object"), "data", "embedded_object", "object")

extract_all_resourcesMutUnique(soup) ==
    LET all == extract_images(soup) \o extract_videos(soup) \o extract_audios(soup)
                 \o extract_documents(soup) \o extract_scripts(soup)
                 \o extract_stylesheets(soup) \o extract_favicons(soup)
                 \o extract_embedded_content(soup)
        first == {i \in 1..Len(all) : \A j \in 1..(i - 1) : all[j] # all[i]}
        RECURSIVE Pick(_)
        Pick(i) == IF i > Len(all) THEN <<>>
                   ELSE (IF i \in first THEN <<all[i]>> ELSE <<>>) \o Pick(i + 1)
    IN  Pick(1)

extract_all_resources(soup) ==
    extract_images(soup) \o extract_videos(soup) \o extract_audios(soup)
        \o extract_documents(soup) \o extract_scripts(soup)
        \o extract_stylesheets(soup) \o extract_favicons(soup)
        \o extract_embedded_content(soup)

(* The top-level elements of TestResourceExtractor.sample_html (under *)
(* <head> and <body>), in the order written.                          *)
SampleHtml ==
    << Elem("link", [rel |-> <<"stylesheet">>, href |-> File("/style", ".css")], <<>>),
       Elem("link", [rel |-> <<"icon">>, href |-> File("favicon", ".ico")], <<>>),
       Elem("script", [src |-> File("script", ".js")], <<>>),
       Elem("img", [src |-> File("image", ".jpg"), alt |-> <<"test image">>], <<>>),
       Elem("div", [style |-> <<[prop |-> "background-image",
                                 url |-> File("bg", ".png")]>>], <<>>),
       Elem("picture", <<>>,
            << Elem("source", [srcset |-> File("image", ".webp"),
                               type |-> <<"image/webp">>], <<>>),
               Elem("img", [src |-> File("image2", ".jpg")], <<>>) >>),
       Elem("video", [src |-> File("video", ".mp4")], <<>>),
       Elem("audio", <<>>,
            << Elem("source", [src |-> File("audio", ".mp3"),
                               type |-> <<"audio/mpeg">>], <<>>) >>),
       Elem("a", [href |-> File("document", ".pdf")], <<>>),
       Elem("a", [href |-> File("/archive", ".zip")], <<>>),
       Elem("iframe", [src |-> File("embed", ".html")], <<>>),
       Elem("embed", [src |-> File("flash", ".swf")], <<>>),
       Elem("object", [data |-> File("object", ".svg")], <<>>) >>

(* The documents: the sample with some of its top-level elements left *)
(* out, and one of those kept written a second time at the end or not. *)
RECURSIVE Keep(_, _)
Keep(i, kept) ==
    IF i > Len(SampleHtml) THEN <<>>
    ELSE (IF i \in kept THEN <<SampleHtml[i]>> ELSE <<>>) \o Keep(i + 1, kept)

Document(kept, again) ==
    Keep(1, kept) \o (IF again \in kept THEN <<SampleHtml[again]>> ELSE <<>>)

ExtractAllResources ==
    /\ doc.stage = "none"
    /\ \E kept \in SUBSET (1..Len(SampleHtml)), again \in 0..Len(SampleHtml) :
         /\ again = 0 \/ again \in kept
         /\ doc' = [doc EXCEPT !.stage = "resources",
                               !.elements = Document(kept, again),
                               !.resources = extract_all_resources(Document(kept, again))]
    /\ UNCHANGED DocRest

SpecResources == InitDoc /\ [][ExtractAllResources]_vars

(***************************************************************************)
(* update_page_crawl and reset_domain_crawl_status on rows with their      *)
(* crawl times and payload columns (of the nineteen payload columns the    *)
(* status code, the title, the error message and the redirect URL).  Times *)
(* are counted: each call's datetime.now() is later than every time in the *)
(* store.                                                                  *)
(***************************************************************************)
NoTime == 0

PayloadFields == {"status_code", "title", "error_message", "redirect_url"}

(* The NULL of a payload column. *)
NullOf(field) == IF field = "status_code" THEN NoStatus ELSE NULL

(* data.get(field) *)
DataGet(data, field) ==
    IF field \in DOMAIN data THEN data[field] ELSE NullOf(field)

(* A row as add_page inserts it at time now, with all its columns. *)
FullRow(url, parent, depth, now) ==
    NewRow(url, normalize_url_advanced(url), parent, depth)
        @@ [discovered_at |-> now, first_crawled_at |-> NoTime,
            last_crawled_at |-> NoTime, title |-> NULL, redirect_url |-> NULL]

(* The latest time in the store. *)
Latest(pgs) ==
    LET times == {0} \cup UNION {{pgs[id].discovered_at, pgs[id].last_crawled_at} :
                                    id \in DOMAIN pgs}
    IN  CHOOSE t \in times : \A o \in times : o <= t

(* Lines 222-276: the UPDATE. *)
update_page_crawlMutKeepsAbsent(pgs, id, now, data) ==
    IF id \notin DOMAIN pgs THEN pgs
    ELSE [pgs EXCEPT ![id] =
            [col \in DOMAIN pgs[id] |->
                CASE col = "first_crawled_at" ->
                        IF pgs[id][col] # NoTime THEN pgs[id][col] ELSE now
                  [] col = "last_crawled_at" -> now
                  [] col = "crawl_count" -> pgs[id][col] + 1
                  [] col = "is_crawled" -> 1
                  [] col \in PayloadFields ->
                        IF col \in DOMAIN data THEN data[col] ELSE pgs[id][col]
                  [] OTHER -> pgs[id][col]]]

update_page_crawl(pgs, id, now, data) ==
    IF id \notin DOMAIN pgs THEN pgs
    ELSE [pgs EXCEPT ![id] =
            [col \in DOMAIN pgs[id] |->
                CASE col = "first_crawled_at" ->
                        IF pgs[id][col] # NoTime THEN pgs[id][col] ELSE now
                  [] col = "last_crawled_at" -> now
                  [] col = "crawl_count" -> pgs[id][col] + 1
                  [] col = "is_crawled" -> 1
                  [] col \in PayloadFields -> DataGet(data, col)
                  [] OTHER -> pgs[id][col]]]

(* The updates: what the worker passes for a page robots.txt denies    *)
(* (line 1208) and for one beyond max_depth (line 1214), and page data *)
(* with any of the four fields present.                                *)
Payloads ==
    { [status_code |-> 403, error_message |-> "Disallowed by robots.txt"],
      [status_code |-> 0, error_message |-> "Max depth reached"] }
      \cup UNION { [K -> {"text"}] : K \in SUBSET (PayloadFields \ {"status_code"}) }
      \cup UNION { { f @@ [status_code |-> 200] : f \in [K -> {"text"}] } :
                      K \in SUBSET (PayloadFields \ {"status_code"}) }

(* Two rows of a.com, the second found on the first, and one of b.com. *)
FullPages ==
    <<FullRow(Root, NoURL, 0, 1), FullRow(PX, Root, 1, 2), FullRow(Ext, NoURL, 0, 2)>>

(* update_page_crawl(id, data) *)
OpUpdateData(id, data) ==
    /\ op.n < MaxOps
    /\ id \in DOMAIN pages
    /\ pages' = update_page_crawl(pages, id, Latest(pages) + 1, data)
    /\ op' = [OpRec("update_page_crawl", id, NoURL, NoURL, NoDomain, None)
                EXCEPT !.data = data, !.now = Latest(pages) + 1]
    /\ UNCHANGED <<nextId, links, resources, events>>
    /\ UNCHANGED OpsRest

InitPayload ==
    /\ NoCallers
    /\ tlog = EmptyTrapLog
    /\ NoRun("payload")
    /\ trap = <<>>
    /\ pages = FullPages
    /\ nextId = Len(FullPages) + 1
    /\ links = OpsLinks
    /\ resources = OpsRows
    /\ events = OpsRows

NextPayload ==
    \/ \E id \in {1, 3}, data \in Payloads : OpUpdateData(id, data)
    \/ \E domain \in {Netloc(Root), Netloc(Ext)} : OpReset(domain)

SpecPayload == InitPayload /\ [][NextPayload]_vars


(***************************************************************************)
(* The claims.                                                             *)
(***************************************************************************)
RowsWithNorm(norm) ==
    {id \in DOMAIN pages : url_hash(pages[id].normalized_url) = url_hash(norm)}

(* C1: any two add_page calls whose canonical URLs are equal return the *)
(* same page id, and the pages table holds exactly one row for that     *)
(* normalized-URL hash.                                                 *)
C1_SameCanonicalSameId ==
    \A r1 \in returned, r2 \in returned :
        r1.norm = r2.norm =>
            /\ r1.id = r2.id
            /\ Cardinality(RowsWithNorm(r1.norm)) = 1

(* Two calls with different raw URLs and one canonical form have returned. *)
C1_Witness ==
    \E r1 \in returned, r2 \in returned :
        /\ r1.url # r2.url
        /\ r1.norm = r2.norm
        /\ ~r1.raced /\ ~r2.raced
        /\ r1.id = r2.id /\ r1.id # None

(* C2: when add_page calls with one canonical URL interleave, one row is *)
(* created, and the caller whose INSERT hits the uniqueness violation    *)
(* returns that row's id, never a failure.                               *)
C2_RaceAbsorbed ==
    /\ \A i \in DOMAIN pages, j \in DOMAIN pages :
          i # j => url_hash(pages[i].normalized_url)
                     # url_hash(pages[j].normalized_url)
    /\ \A r \in returned :
          r.raced => /\ r.id # None
                     /\ r.id \in DOMAIN pages
                     /\ pages[r.id].normalized_url = r.norm

(* A caller lost the race and returned the id the winner returned. *)
C2_Witness ==
    \E r1 \in returned, r2 \in returned :
        /\ r1.raced /\ ~r2.raced
        /\ r1.caller # r2.caller
        /\ r1.norm = r2.norm
        /\ r1.id = r2.id /\ r1.id # None

(* C3: a run started by --new-scan or --update ends: run() returns. *)
C3_RunTerminates ==
    cfg.entry \in {"new_scan", "update"} => <>(mgr.pc \in {"done", "returned"})

(* C4: a step in which a worker raises marks its item done (the count of *)
(* unfinished items goes down by one), whatever the queue holds.         *)
C4_ExceptionMarksDone ==
    [][exc' = exc + 1 => unfinished' = unfinished - 1]_vars

(* C5: each page id is put on the work queue at most once and taken from *)
(* it at most once, and no two rows share a normalized URL, also when    *)
(* several workers discover the same internal URL.                       *)
C5_EnqueuedOnce ==
    /\ \A id \in DOMAIN hist.enq : hist.enq[id] <= 1
    /\ \A id \in DOMAIN hist.deq : hist.deq[id] <= 1
    /\ \A i \in 1..Len(queue), j \in 1..Len(queue) :
          i # j => queue[i].id # queue[j].id
    /\ \A d \in hist.disc : Cardinality(RowsWithNorm(d[2])) <= 1

(* Two workers have discovered one internal URL; it was dequeued once. *)
C5_Witness ==
    \E d1 \in hist.disc, d2 \in hist.disc :
        /\ d1[1] # d2[1]
        /\ d1[2] = d2[2]
        /\ \E id \in RowsWithNorm(d1[2]) :
              Count(hist.enq, id) = 1 /\ Count(hist.deq, id) = 1

(* C6: while a page has is_crawled=1 it is not enqueued and its *)
(* crawl_count does not change; only the reset of --update      *)
(* clears the flag.                                             *)
C6_CrawledOnce ==
    [][\A id \in DOMAIN pages \cap DOMAIN pages' :
          pages[id].is_crawled = 1 =>
              /\ pages'[id].crawl_count = pages[id].crawl_count
              /\ Count(hist'.enq, id) = Count(hist.enq, id)
              /\ (pages'[id].is_crawled = 0 => mgr.pc = "setup")]_vars

PolicyOf(url) ==
    IF Netloc(url) \in DOMAIN robot_parsers THEN robot_parsers[Netloc(url)]
    ELSE "unset"

(* C8: with robots not bypassed, a URL the cached policy of its host  *)
(* denies is never fetched and its row gets 403, "Disallowed by       *)
(* robots.txt", is_crawled=1; a host with no policy denies nothing.   *)
C8_RobotsDenied ==
    ~cfg.disregard_robots =>
        /\ \A it \in hist.fetched :
              ~(PolicyOf(it.url) = "policy" /\ RobotsDisallows(it.url))
        /\ \A it \in hist.taken :
              (PolicyOf(it.url) = "policy" /\ RobotsDisallows(it.url))
                  => it \in hist.robots_skipped
        /\ \A it \in hist.robots_skipped :
              /\ PolicyOf(it.url) = "policy"
              /\ it \notin hist.fetched
              /\ pages[it.id].status_code = 403
              /\ pages[it.id].error_message = "Disallowed by robots.txt"
              /\ pages[it.id].is_crawled = 1

(* One URL was denied by its host's policy and its row updated. *)
C8_Witness ==
    /\ ~cfg.disregard_robots
    /\ \E it \in hist.robots_skipped :
          /\ PolicyOf(it.url) = "policy"
          /\ pages[it.id].status_code = 403
          /\ pages[it.id].is_crawled = 1

(* C9 as stated: a dequeued item deeper than max_depth is never fetched *)
(* and its row gets status 0, "Max depth reached", is_crawled=1.        *)
C9_DeepGetsStatus0 ==
    \A it \in hist.taken :
        it.depth > MaxDepth =>
            /\ it \notin hist.fetched
            /\ pages[it.id].status_code = 0
            /\ pages[it.id].error_message = "Max depth reached"
            /\ pages[it.id].is_crawled = 1

(* C9 amended: a dequeued item deeper than max_depth is never fetched   *)
(* and its row gets is_crawled=1; it gets status 0, "Max depth reached" *)
(* unless robots.txt denied it first (then 403).                        *)
C9_DeepNotFetched ==
    \A it \in hist.taken :
        it.depth > MaxDepth =>
            /\ it \notin hist.fetched
            /\ pages[it.id].is_crawled = 1
            /\ \/ it \in hist.robots_skipped
               \/ /\ it \in hist.depth_skipped
                  /\ pages[it.id].status_code = 0
                  /\ pages[it.id].error_message = "Max depth reached"

(* An item beyond max_depth was skipped and the worker took another. *)
C9_Witness ==
    \E it \in hist.depth_skipped :
        /\ it.depth > MaxDepth
        /\ pages[it.id].status_code = 0
        /\ \E o \in hist.taken : o # it

(* C10: the crawl_count of every row is the number of crawl attempts *)
(* completed on it.                                                  *)
C10_CrawlCount ==
    \A id \in DOMAIN pages : pages[id].crawl_count = Count(hist.attempts, id)

(* A robots denial has been counted once and a second crawl of a page *)
(* crawled before has been counted on top of the first.               *)
C10_Witness ==
    /\ \E id \in DOMAIN pages :
          pages[id].status_code = 403 /\ pages[id].crawl_count = 1
    /\ \E id \in DOMAIN pages :
          pages[id].crawl_count = 2 /\ Count(hist.attempts, id) = 2

(* C11: under one path, with N = max_query_variations, is_trap answers  *)
(* false for the first N distinct query-key sets asked about, true for   *)
(* every further new key set, and false for a key set it remembers, also *)
(* once the limit is reached.                                            *)
C11_QueryVariations ==
    LET l   == tlog.last
        sig == QueryKeys(l.url.query)
    IN  (tlog.n > 0 /\ ~PathIsTrap(l.url)) =>
            /\ Cardinality(l.seen0 \cup {sig}) <= max_query_variations
                   => ~l.verdict
            /\ (sig \notin l.seen0 /\ Cardinality(l.seen0) >= max_query_variations)
                   => l.verdict
            /\ sig \in l.known0 => ~l.verdict
            /\ \A p \in DOMAIN trap :
                   Cardinality(trap[p]) <= max_query_variations

(* A remembered key set was asked about again after the limit was reached *)
(* and a further key set had been refused.                                *)
C11_Witness ==
    LET l == tlog.last
    IN  /\ tlog.n > 0
        /\ ~l.verdict
        /\ QueryKeys(l.url.query) \in l.known0
        /\ Cardinality(l.known0) = max_query_variations
        /\ Cardinality(l.seen0) > max_query_variations

(* C12: is_trap calls of different threads leave the memory as some     *)
(* serial order of them would: every key set a call answered false for *)
(* is remembered, and no path holds more than max_query_variations.    *)
C12_TrapSerialised ==
    /\ \A p \in DOMAIN trap : Cardinality(trap[p]) <= max_query_variations
    /\ (\A t \in Workers : tcall[t].pc = "idle") =>
          \A sg \in tlog.admitted : sg[1] \in DOMAIN trap /\ sg[2] \in trap[sg[1]]

(* C13: add_page inserts a row and returns its id whenever no row has *)
(* the given normalized-URL hash, whatever the raw URL and the store;  *)
(* otherwise it returns the id of the row that has it, inserting none. *)
C13_AddPageInsertsOrFinds ==
    op.name = "add_page" =>
        LET old == {id \in DOMAIN op.pages0 :
                      url_hash(op.pages0[id].normalized_url) = url_hash(op.norm)}
        IN  IF old = {}
            THEN /\ op.result \in DOMAIN pages \ DOMAIN op.pages0
                 /\ pages[op.result].url = op.url
                 /\ pages[op.result].normalized_url = op.norm
            ELSE /\ op.result \in old
                 /\ pages = op.pages0

LinkRows(lks, source, target) ==
    {l \in lks : l.source = source /\ url_hash(l.target) = url_hash(target)}

C16_ResetClearsDomain ==
    op.name = "reset_domain_crawl_status" =>
        \A id \in DOMAIN pages :
            pages[id].domain = op.domain => pages[id].is_crawled = 0

(* A domain with a crawled row below depth 0 was reset; a crawled row of *)
(* another domain is still crawled.                                      *)
C16_Witness ==
    /\ op.name = "reset_domain_crawl_status"
    /\ \E id \in DOMAIN pages :
          /\ pages[id].domain = op.domain
          /\ op.pages0[id].is_crawled = 1
          /\ pages[id].crawl_depth > 0
          /\ pages[id].is_crawled = 0
    /\ \E id \in DOMAIN pages :
          pages[id].domain # op.domain /\ pages[id].is_crawled = 1

Candidates(domain) ==
    {id \in DOMAIN pages :
        /\ pages[id].is_crawled = 0
        /\ (domain # NoDomain => pages[id].domain = domain)}

(* C17: get_next_uncrawled returns an uncrawled row (of the host, when *)
(* one is given) of the smallest crawl_depth and, among those, the one *)
(* discovered first; it returns nothing exactly when there is none.    *)
C17_NextUncrawled ==
    op.name = "get_next_uncrawled" =>
        IF op.result = None THEN Candidates(op.domain) = {}
        ELSE /\ op.result \in Candidates(op.domain)
             /\ \A o \in Candidates(op.domain) :
                   /\ pages[op.result].crawl_depth <= pages[o].crawl_depth
                   /\ pages[op.result].crawl_depth = pages[o].crawl_depth
                         => op.result <= o

(* The row returned was discovered after a deeper one and before another *)
(* of its depth.                                                         *)
C17_Witness ==
    /\ op.name = "get_next_uncrawled"
    /\ op.result # None
    /\ \E o \in Candidates(op.domain) :
          o < op.result /\ pages[o].crawl_depth > pages[op.result].crawl_depth
    /\ \E o \in Candidates(op.domain) :
          o > op.result /\ pages[o].crawl_depth = pages[op.result].crawl_depth

Gone == {id \in DOMAIN op.pages0 : op.pages0[id].domain = op.domain}

(* C18: after delete_domain_data(H) no row of domain H is left, nor any *)
(* link, resource or javascript event of such a row; the rows of other  *)
(* domains and what is attached to them are as before.                  *)
C18_DeleteDomain ==
    op.name = "delete_domain_data" =>
        /\ \A id \in DOMAIN pages : pages[id].domain # op.domain
        /\ \A l \in links : l.source \notin Gone
        /\ DOMAIN resources \cap Gone = {}
        /\ DOMAIN events \cap Gone = {}
        /\ \A id \in DOMAIN op.pages0 \ Gone :
              id \in DOMAIN pages /\ pages[id] = op.pages0[id]
        /\ \A l \in op.links0 : l.source \notin Gone => l \in links
        /\ \A id \in DOMAIN op.resources0 \ Gone :
              id \in DOMAIN resources /\ resources[id] = op.resources0[id]
        /\ \A id \in DOMAIN op.events0 \ Gone :
              id \in DOMAIN events /\ events[id] = op.events0[id]

(* A domain with rows, a link, a resource and an event was deleted while *)
(* another domain has all of these.                                      *)
C18_Witness ==
    /\ op.name = "delete_domain_data"
    /\ \E l \in op.links0 : l.source \in Gone
    /\ DOMAIN op.resources0 \cap Gone # {}
    /\ DOMAIN op.events0 \cap Gone # {}
    /\ \E id \in DOMAIN pages : pages[id].is_crawled = 1
    /\ links # {}
    /\ resources # <<>>
    /\ events # <<>>

(* C19: robots.txt of a host is fetched at most once in a run: the first *)
(* lookup leaves an entry for the host, a policy or none, and no later   *)
(* lookup fetches again.                                                 *)
C19_RobotsFetchedOnce ==
    /\ \A d \in DOMAIN hist.robots_fetches : hist.robots_fetches[d] <= 1
    /\ \A d \in DOMAIN hist.robots_lookups :
          /\ d \in DOMAIN robot_parsers
          /\ Count(hist.robots_fetches, d) = 1

(* A host whose robots.txt could not be read was looked up again. *)
C19_Witness ==
    \E d \in DOMAIN hist.robots_lookups :
        /\ robot_parsers[d] = "none"
        /\ hist.robots_lookups[d] >= 2
        /\ hist.robots_fetches[d] = 1

ExampleCrawled ==
    /\ mgr.pc = "done"
    /\ Cardinality(DOMAIN pages) = 2
    /\ \E i \in DOMAIN pages, j \in DOMAIN pages :
          /\ pages[i].url = ExSeed /\ pages[j].url = ExLinked
          /\ pages[i].is_crawled = 1 /\ pages[j].is_crawled = 1
    /\ Cardinality(links) = 1
    /\ \A l \in links : l.target = ExLinked

(* C20: the crawl started with robots disabled on the seed              *)
(* http://example.com, whose page has one anchor, to                    *)
(* http://example.com/linked_page, ends with the two page rows, both    *)
(* crawled, and the one link row.                                       *)
C20_ExampleCrawlEnds ==
    (/\ cfg.entry = "new_scan"
     /\ cfg.start_url = ExSeed
     /\ cfg.disregard_robots
     /\ pages = <<>>)
        => <>ExampleCrawled

(* C21: in continue mode with an uncrawled row in the store the run *)
(* starts crawling and goes on until no row of any host is left     *)
(* uncrawled.                                                        *)
C21_ContinueDrains ==
    (cfg.entry = "continue" /\ Uncrawled(pages, NoDomain) # {})
        => <>(mgr.pc = "done" /\ Uncrawled(pages, NoDomain) = {})

(* The items taken from the queue or still on it whose attempt has not *)
(* ended with a page update.                                            *)
Unfinished ==
    {queue[i].id : i \in 1..Len(queue)}
        \cup {wk[w].item.id : w \in {x \in Workers : OnThread(wk[x].pc)}}

(* C22: is_crawled of a row goes from 0 to 1 only in a page update made *)
(* by a live worker for the item it holds (the update after crawl_page, *)
(* or the robots or depth skip of the item just taken); the shutdown    *)
(* and whatever runs after it leave is_crawled of every row as it was,  *)
(* so the queued and in-flight items stay resumable.                    *)
C22_ShutdownKeepsUncrawled ==
    [][\A id \in DOMAIN pages' :
         LET was == IF id \in DOMAIN pages THEN pages[id].is_crawled ELSE 0
         IN  /\ (mgr.pc = "interrupted" \/ mgr'.pc = "interrupted")
                   => pages'[id].is_crawled = was
             /\ (was = 0 /\ pages'[id].is_crawled = 1)
                   => /\ mgr.pc = "join" /\ mgr'.pc = "join"
                      /\ \/ \E w \in Workers : /\ wk[w].pc = "ready"
                                               /\ wk[w].item.id = id
                                               /\ wk'[w].pc # "ready"
                         \/ /\ queue # <<>>
                            /\ Head(queue).id = id
                            /\ queue' = Tail(queue)]_vars

(* After the shutdown an item is still queued, and a crawl_page call  *)
(* that was in flight has returned with its row still uncrawled, in a *)
(* run that had already crawled a page.                               *)
C22_Witness ==
    /\ mgr.pc = "interrupted"
    /\ crawled_count > 0
    /\ queue # <<>>
    /\ \A id \in Unfinished : id \in DOMAIN pages
    /\ \E w \in Workers : /\ wk[w].pc = "ready"
                          /\ pages[wk[w].item.id].is_crawled = 0
    /\ pages[Head(queue).id].is_crawled = 0

(* C23: no page row holds a URL that fails normalization, as the URL it *)
(* was found under or as its canonical form.                            *)
C23_RejectedNeverPage ==
    \A id \in DOMAIN pages :
        /\ normalize_url_advanced(pages[id].url) # NoURL
        /\ normalize_url_advanced(pages[id].normalized_url) # NoURL

(* C24: no page row and no queued item holds a URL that the trap *)
(* detector's path rules classify as a trap.                     *)
C24_TrapNeverStored ==
    /\ \A id \in DOMAIN pages : ~PathIsTrap(pages[id].normalized_url)
    /\ \A i \in 1..Len(queue) : ~PathIsTrap(normalize_url_advanced(queue[i].url))

(* C25: with the browser fetcher no two workers' fetches have the *)
(* driver in hand at the same time.                                *)
C25_DriverOneAtATime ==
    \A w1 \in Workers, w2 \in Workers :
        w1 # w2 => ~(UsesDriver(w1) /\ UsesDriver(w2))

(* C26: a URL that canonicalizes gives, canonicalized again, the same *)
(* canonical form.                                                    *)
C26_NormalizeIdempotent ==
    nz.stage = "twice" => nz.again = nz.norm

(* The port that counts: none when it is the scheme's default. *)
PortButDefault(u) ==
    IF (Lower(u.scheme) = "http" /\ u.port = "80")
       \/ (Lower(u.scheme) = "https" /\ u.port = "443")
    THEN "" ELSE u.port

(* The parameters of a query that are not tracking parameters. *)
NonTracking(q) == SelectSeq(q, LAMBDA kv : kv[1] \notin tracking_params)

Times(q, kv) == Cardinality({i \in 1..Len(q) : q[i] = kv})

(* u and v differ at most in the casing of scheme and host, a default *)
(* port, the fragment, tracking parameters and the order of the query *)
(* parameters.                                                        *)
DifferOnlyAsListed(u, v) ==
    /\ Lower(u.scheme) = Lower(v.scheme)
    /\ Lower(u.host) = Lower(v.host)
    /\ PortButDefault(u) = PortButDefault(v)
    /\ u.path = v.path
    /\ LET qu == NonTracking(u.query)
           qv == NonTracking(v.query)
       IN  /\ Len(qu) = Len(qv)
           /\ \A i \in 1..Len(qu) : Times(qu, qu[i]) = Times(qv, qu[i])

C30_FailedFetch ==
    [][\A w \in Workers :
         LET r == wk[w]
         IN  /\ (r.pc = "fetch" /\ wk'[w].data.error_message # NULL)
                   => /\ wk'[w].pc = "ready"
                      /\ wk'[w].data.status_code = NoStatus
                      /\ wk'[w].new_pages = <<>>
                      /\ pages' = pages
                      /\ links' = links
                      /\ resources' = resources
                      /\ queue' = queue
             /\ (/\ r.pc = "ready"
                 /\ r.data.error_message # NULL
                 /\ wk'[w].pc # "ready"
                 /\ crawled_count' # crawled_count)
                   => /\ DOMAIN pages' = DOMAIN pages
                      /\ pages'[r.item.id].is_crawled = 1
                      /\ pages'[r.item.id].error_message = r.data.error_message
                      /\ pages'[r.item.id].status_code = NoStatus
                      /\ links' = links
                      /\ resources' = resources
                      /\ queue' = queue
                      /\ wk'[w].pc = "get"]_vars

(* A row was marked crawled after its fetch failed, and no link has it *)
(* as its source.                                                       *)
C30_Witness ==
    \E id \in DOMAIN pages :
        /\ pages[id].is_crawled = 1
        /\ pages[id].status_code = NoStatus
        /\ pages[id].error_message = "fetch failed"
        /\ \A l \in links : l.source # id

(* C31: an anchor's link has is_follow false exactly when the word        *)
(* nofollow, standing between spaces or the ends of rel, is in its rel,   *)
(* and its rel text has the words of the anchor's rel with one space      *)
(* between two of them and none before or after; the row stored for a     *)
(* target has the rel text and is_follow of the first anchor to it.       *)
FirstTo(found, target) ==
    CHOOSE i \in 1..Len(found) :
        /\ found[i].target_url = target
        /\ \A j \in 1..(i - 1) : found[j].target_url # target

HasNofollowWord(text) ==
    \E i \in 1..Len(text) :
        /\ text[i] = "nofollow"
        /\ (i = 1 \/ text[i - 1] = Space)
        /\ (i = Len(text) \/ text[i + 1] = Space)

SingleSpaced(text) ==
    /\ text # <<>> => (Head(text) # Space /\ text[Len(text)] # Space)
    /\ \A i \in 1..(Len(text) - 1) : ~(text[i] = Space /\ text[i + 1] = Space)

C31_RelAndFollow ==
    LET kept == SelectSeq(doc.anchors, LAMBDA a : a.href.scheme # "#")
    IN  /\ doc.stage # "none" =>
              /\ Len(doc.found) = Len(kept)
              /\ \A i \in 1..Len(kept) :
                    LET a == kept[i]
                        l == doc.found[i]
                    IN  /\ l.target_url = a.href
                        /\ l.is_follow = ~(a.rel.present /\ HasNofollowWord(a.rel.text))
                        /\ a.rel.present =>
                              /\ SingleSpaced(l.rel)
                              /\ SplitWords(l.rel, <<>>, <<>>)
                                    = SplitWords(a.rel.text, <<>>, <<>>)
        /\ doc.stage = "stored" =>
              /\ {r.target : r \in doc.rows} = {doc.found[i].target_url : i \in 1..Len(doc.found)}
              /\ \A r \in doc.rows :
                    LET l == doc.found[FirstTo(doc.found, r.target)]
                    IN  r.link_rel = l.rel /\ r.is_follow = l.is_follow

(* The anchor rel="noopener nofollow" was stored. *)
C31_Witness ==
    /\ doc.stage = "stored"
    /\ doc.anchors[1].rel = Attr(<<"noopener", Space, "nofollow">>)
    /\ \E r \in doc.rows :
          /\ r.target = PX
          /\ r.link_rel = <<"noopener", Space, "nofollow">>
          /\ ~r.is_follow

(* C32: extract_all_resources gives, kind after kind in the order images, *)
(* videos, audios, documents, scripts, stylesheets, favicons, embedded,   *)
(* what each element of the document yields, an element written twice    *)
(* counted twice; the sample document yields 4 images, 1 video, 1 audio,  *)
(* 2 documents, 1 script, 1 stylesheet, 1 favicon and 3 embedded items,   *)
(* 14 resources.                                                          *)
KindOrder ==
    <<"image", "video", "audio", "document", "script", "stylesheet", "favicon",
      "embedded_iframe", "embedded_embed", "embedded_object">>

KindRank(type) == CHOOSE k \in 1..Len(KindOrder) : KindOrder[k] = type

(* What each top-level element of the sample is expected to yield. *)
SampleYield ==
    << [type |-> "stylesheet", n |-> 1], [type |-> "favicon", n |-> 1],
       [type |-> "script", n |-> 1], [type |-> "image", n |-> 1],
       [type |-> "image", n |-> 1], [type |-> "image", n |-> 2],
       [type |-> "video", n |-> 1], [type |-> "audio", n |-> 1],
       [type |-> "document", n |-> 1], [type |-> "document", n |-> 1],
       [type |-> "embedded_iframe", n |-> 1], [type |-> "embedded_embed", n |-> 1],
       [type |-> "embedded_object", n |-> 1] >>

OfType(res, types) == Cardinality({i \in 1..Len(res) : res[i].type \in types})

RECURSIVE ExpectedOfType(_, _, _)
ExpectedOfType(elems, type, g) ==
    IF g > Len(SampleHtml) THEN 0
    ELSE (IF SampleYield[g].type = type
          THEN SampleYield[g].n
                 * Cardinality({i \in 1..Len(elems) : elems[i] = SampleHtml[g]})
          ELSE 0)
         + ExpectedOfType(elems, type, g + 1)

Embedded == {"embedded_iframe", "embedded_embed", "embedded_object"}

C32_AllResources ==
    doc.stage = "resources" =>
        LET res == doc.resources
        IN  /\ \A k \in 1..Len(KindOrder) :
                  OfType(res, {KindOrder[k]})
                      = ExpectedOfType(doc.elements, KindOrder[k], 1)
            /\ \A i \in 1..(Len(res) - 1) :
                  KindRank(res[i].type) <= KindRank(res[i + 1].type)
            /\ doc.elements = SampleHtml =>
                  /\ OfType(res, {"image"}) = 4
                  /\ OfType(res, {"video"}) = 1
                  /\ OfType(res, {"audio"}) = 1
                  /\ OfType(res, {"document"}) = 2
                  /\ OfType(res, {"script"}) = 1
                  /\ OfType(res, {"stylesheet"}) = 1
                  /\ OfType(res, {"favicon"}) = 1
                  /\ OfType(res, Embedded) = 3
                  /\ Len(res) = 14

(* The resources of the whole sample were extracted, the four images *)
(* first.                                                            *)
C32_Witness ==
    /\ doc.stage = "resources"
    /\ doc.elements = SampleHtml
    /\ Len(doc.resources) = 14
    /\ \A i \in 1..4 : doc.resources[i].type = "image"

(* C33: the population loop of run() ends: once it has started, the run  *)
(* gets past it (to the join, or to its return when the queue is empty). *)
C33_PreloadTerminates ==
    (mgr.pc = "preload_query")
        ~> (mgr.pc \notin {"preload_query", "preload_test"})

(* C34: an item a worker puts on the queue has the depth of the worker's *)
(* own item plus 1, and that is at most max_depth; a worker whose item   *)
(* is at max_depth or deeper holds no child page to add.                 *)
C34_ChildDepth ==
    [][\A w \in Workers :
         /\ wk[w].item.depth >= MaxDepth => wk[w].new_pages = <<>>
         /\ (/\ wk[w].pc \in {"child", "child_insert", "child_requery"}
             /\ loop = w
             /\ Len(queue') = Len(queue) + 1)
               => LET put == queue'[Len(queue')]
                  IN  /\ put.depth = wk[w].item.depth + 1
                      /\ put.depth <= MaxDepth]_vars

(* A page at max_depth that was put on the queue by a worker and has an *)
(* internal link has been fetched.                                      *)
C34_Witness ==
    \E w \in Workers :
        /\ wk[w].pc = "ready"
        /\ wk[w].data.status_code = 200
        /\ wk[w].item.depth = MaxDepth
        /\ pages[wk[w].item.id].parent_url # NoURL
        /\ \E i \in 1..Len(SiteLinks(wk[w].item.url)) :
              is_internal(SiteLinks(wk[w].item.url)[i], mgr.domain_to_crawl)

(* C35: when a worker inserts the row of a child page or puts a child on *)
(* the queue, the row of the worker's own item already holds the update  *)
(* of this attempt: it is marked crawled, with the status and the error  *)
(* text the fetch gave.                                                  *)
C35_UpdateBeforeChildren ==
    [][\A w \in Workers :
         (/\ loop = w
          /\ wk[w].pc \in {"child", "child_insert", "child_requery"}
          /\ (Len(queue') = Len(queue) + 1 \/ DOMAIN pages' # DOMAIN pages))
            => LET row == pages[wk[w].item.id]
               IN  /\ row.is_crawled = 1
                   /\ row.crawl_count >= 1
                   /\ row.status_code = wk[w].data.status_code
                   /\ row.error_message = wk[w].data.error_message]_vars

(* A child's row was inserted by a worker and the child is on the queue, *)
(* its parent's row marked crawled.                                      *)
C35_Witness ==
    \E i \in 1..Len(queue) :
        LET id == queue[i].id
        IN  /\ queue[i].depth = 1
            /\ pages[id].parent_url # NoURL
            /\ \E p \in DOMAIN pages :
                  /\ pages[p].url = pages[id].parent_url
                  /\ pages[p].is_crawled = 1

(* C36: a call of is_trap, calls made one after the other, leaves the    *)
(* memory as it was when it answers trap, by any rule, or when the key   *)
(* set is already remembered under the path; when it answers no trap for *)
(* a key set not remembered it adds that key set under that path and     *)
(* changes nothing else; no path ever remembers more than                *)
(* max_query_variations key sets.                                        *)
C36_MemoryChange ==
    [][tlog'.n = tlog.n + 1 =>
         LET u     == tlog'.last.url
             keys  == Signature(u)[2]
             known == IF u.path \in DOMAIN trap THEN trap[u.path] ELSE {}
         IN  /\ (tlog'.last.verdict \/ keys \in known) => trap' = trap
             /\ (~tlog'.last.verdict /\ keys \notin known) =>
                   /\ DOMAIN trap' = DOMAIN trap \cup {u.path}
                   /\ trap'[u.path] = known \cup {keys}
                   /\ \A p \in DOMAIN trap : p # u.path => trap'[p] = trap[p]
             /\ \A p \in DOMAIN trap' :
                   Cardinality(trap'[p]) <= max_query_variations]_vars

(* A call answered trap with max_query_variations key sets remembered *)
(* under its path, and another by a rule on the path alone.           *)
C36_Witness ==
    /\ tlog.last.verdict
    /\ ~PathIsTrap(tlog.last.url)
    /\ Cardinality(trap[tlog.last.url.path]) = max_query_variations
    /\ \E sg \in tlog.seen \ tlog.admitted : Len(sg[1]) > 1

(* C37: calls made one after the other: a call for a path and key set    *)
(* asked about before gets the answer the first such call got, whatever  *)
(* was asked in between.                                                 *)
C37_VerdictStable ==
    [][(tlog'.n = tlog.n + 1 /\ Signature(tlog'.last.url) \in tlog.seen)
          => (tlog'.last.verdict <=> Signature(tlog'.last.url) \notin tlog.admitted)]_vars

(* A URL refused for its key set was asked about again after others had *)
(* been, and a URL admitted before was asked about again with the limit *)
(* reached.                                                             *)
C37_Witness ==
    LET l == tlog.last
    IN  /\ tlog.n >= 3
        /\ ~PathIsTrap(l.url)
        /\ Signature(l.url)[2] \in l.seen0
        /\ Cardinality(l.known0) = max_query_variations
        /\ \E sg \in tlog.seen \ tlog.admitted : sg[1] = l.url.path

(* C38: add_page with a normalized URL that a row already has returns   *)
(* that row's id and leaves every table as it was: the row keeps its    *)
(* raw URL, depth, parent and is_crawled, whatever the call's raw URL,  *)
(* depth and parent are.                                                *)
C38_AddPageKeepsRow ==
    (/\ op.name = "add_page"
     /\ \E id \in DOMAIN op.pages0 : op.pages0[id].normalized_url = op.norm)
        => /\ pages = op.pages0
           /\ links = op.links0
           /\ resources = op.resources0
           /\ events = op.events0
           /\ op.result \in DOMAIN pages
           /\ pages[op.result].normalized_url = op.norm

(* add_page was called with depth 0, no parent and another raw URL for *)
(* the normalized URL of a crawled row found at depth 1 under a parent. *)
C38_Witness ==
    /\ op.name = "add_page"
    /\ op.depth = 0
    /\ op.result \in DOMAIN op.pages0
    /\ LET row == op.pages0[op.result]
       IN  /\ row.normalized_url = op.norm
           /\ row.crawl_depth = 1
           /\ row.parent_url = Root
           /\ row.is_crawled = 1
           /\ row.url # op.url

(* C39: after update_page_crawl every payload column of the row holds   *)
(* what the update gives for it, NULL for a field the update does not   *)
(* have, whatever the column held; first_crawled_at is the time of the  *)
(* call if it was NULL and is kept otherwise; last_crawled_at is the    *)
(* time of the call.                                                    *)
C39_UpdateReplacesPayload ==
    (op.name = "update_page_crawl" /\ op.id \in DOMAIN op.pages0) =>
        LET old == op.pages0[op.id]
            new == pages[op.id]
        IN  /\ \A f \in PayloadFields :
                  new[f] = IF f \in DOMAIN op.data THEN op.data[f]
                           ELSE IF f = "status_code" THEN NoStatus ELSE NULL
            /\ old.first_crawled_at # NoTime
                  => new.first_crawled_at = old.first_crawled_at
            /\ old.first_crawled_at = NoTime => new.first_crawled_at = op.now
            /\ new.last_crawled_at = op.now
            /\ op.now > old.last_crawled_at

(* A row crawled before, with a title and a status code, was updated *)
(* with neither; its first crawl is earlier than its last.           *)
C39_Witness ==
    /\ op.name = "update_page_crawl"
    /\ op.id \in DOMAIN op.pages0
    /\ op.pages0[op.id].title # NULL
    /\ op.pages0[op.id].status_code = 200
    /\ DOMAIN op.data = {"error_message"}
    /\ pages[op.id].title = NULL
    /\ pages[op.id].first_crawled_at < pages[op.id].last_crawled_at

(* C40: reset_domain_crawl_status(H) leaves the rows of other domains as *)
(* they were, changes no column but is_crawled in the rows of H, which   *)
(* it sets to 0, and leaves the links, resources and javascript_events   *)
(* tables as they were.                                                  *)
C40_ResetFrame ==
    op.name = "reset_domain_crawl_status" =>
        /\ DOMAIN pages = DOMAIN op.pages0
        /\ \A id \in DOMAIN pages :
              LET old == op.pages0[id]
                  new == pages[id]
              IN  /\ DOMAIN new = DOMAIN old
                  /\ \A col \in DOMAIN old \ {"is_crawled"} : new[col] = old[col]
                  /\ new.is_crawled = IF old.domain = op.domain THEN 0
                                      ELSE old.is_crawled
        /\ links = op.links0
        /\ resources = op.resources0
        /\ events = op.events0

(* A domain was reset that had a crawled row with a title, and a *)
(* crawled row of another domain is still marked crawled.        *)
C40_Witness ==
    /\ op.name = "reset_domain_crawl_status"
    /\ \E id \in DOMAIN pages :
          /\ pages[id].domain = op.domain
          /\ op.pages0[id].is_crawled = 1
          /\ pages[id].is_crawled = 0
          /\ pages[id].crawl_count = 1
          /\ pages[id].title # NULL
          /\ pages[id].first_crawled_at # NoTime
    /\ \E id \in DOMAIN pages :
          pages[id].domain # op.domain /\ pages[id].is_crawled = 1

=============================================================================
